---- MODULE Spec2Model ----
(***************************************************************************)
(* A model of the lava-api client: the cursor Paginator (paginator.rs),    *)
(* and the Devices / Jobs enrichment streams built on it (device.rs,       *)
(* job.rs) together with the tag cache of the Lava proxy (lib.rs).         *)
(***************************************************************************)
EXTENDS Integers, Sequences, FiniteSets, TLC

(***************************************************************************)
(* Bounds of the model.                                                    *)
(***************************************************************************)
MaxItems == 3
MaxPageSize == 2
MaxErrors == 2
\* the largest number of members of an enumeration, and the number of
\* include / exclude calls made on one QuerySet
MaxEnum == 3
MaxCalls == 3

\* paginator.rs:78, the literal of `if redirects > 9`
RedirectLimit == 9

(***************************************************************************)
(* URLs and the strings that are parsed into them.                         *)
(* A Url is a scheme and the page of the collection it addresses.  A       *)
(* string (a `next` field or a Location header) is an absolute URL, a      *)
(* relative reference, or text that is no URL at all.                      *)
(***************************************************************************)
Schemes == {"http", "https"}

Url(s, pg) == [scheme |-> s, page |-> pg]

AbsStr(s, pg) == [kind |-> "abs", scheme |-> s, page |-> pg]
RelStr(pg) == [kind |-> "rel", scheme |-> "", page |-> pg]
BadStr == [kind |-> "bad", scheme |-> "", page |-> 0]

LinkKinds == {"abs", "rel", "bad"}

\* str::parse::<Url>(): only an absolute URL parses without a base.
parse(s) ==
    IF s.kind = "abs"
    THEN [ok |-> TRUE, url |-> Url(s.scheme, s.page), err |-> "none"]
    ELSE [ok |-> FALSE, url |-> Url("", 0), err |-> "ParseNextError"]

\* Url::join(): a relative reference is resolved against the base.
join(base, s) ==
    CASE s.kind = "abs" -> [ok |-> TRUE, url |-> Url(s.scheme, s.page), err |-> "none"]
      [] s.kind = "rel" -> [ok |-> TRUE, url |-> Url(base.scheme, s.page), err |-> "none"]
      [] OTHER -> [ok |-> FALSE, url |-> Url("", 0), err |-> "ParseNextError"]

(***************************************************************************)
(* HTTP responses.  `loc` is the Location header: a string, or one of the  *)
(* two markers for a header that is absent or is not UTF-8.                *)
(***************************************************************************)
NoBody == [count |-> 0, next |-> {}, results |-> <<>>]
NoLoc == [kind |-> "missing", scheme |-> "", page |-> 0]
NonUtf8Loc == [kind |-> "nonutf8", scheme |-> "", page |-> 0]

NoResp == [kind |-> "none", loc |-> NoLoc, body |-> NoBody]
OkResp(b) == [kind |-> "ok", loc |-> NoLoc, body |-> b]
ErrResp(k) == [kind |-> k, loc |-> NoLoc, body |-> NoBody]
RedirectResp(l) == [kind |-> "redirect", loc |-> l, body |-> NoBody]

\* the three ways a response fails as a reqwest::Error
ReqwestFailures == {"transport", "status", "decode"}

(***************************************************************************)
(* Paginator::get, the future that fetches one page.                       *)
(* phase "created": not polled yet, no request sent;                       *)
(* phase "awaiting": a request for `u` is in flight, `resp` is its answer  *)
(* once the server has given one.                                          *)
(***************************************************************************)
get(uri) ==
    [uri |-> uri, u |-> uri, redirects |-> 0, phase |-> "created", resp |-> NoResp]

GetPending(f, sent) == [done |-> FALSE, fut |-> f, ok |-> FALSE, body |-> NoBody,
                        err |-> "none", sent |-> sent]
GetErr(f, e) == [done |-> TRUE, fut |-> f, ok |-> FALSE, body |-> NoBody,
                 err |-> e, sent |-> <<>>]
GetOk(f, b) == [done |-> TRUE, fut |-> f, ok |-> TRUE, body |-> b,
                err |-> "none", sent |-> <<>>]

\* a request: the URL asked for and the Location header it follows, if any
Request(u, l) == [url |-> u, loc |-> l]

\* the redirect target is requested as it is
ForceHttps_off(uri, u) == u

\* paginator.rs:91-93
ForceHttps(uri, u) ==
    IF uri.scheme = "https" /\ u.scheme = "http" THEN Url("https", u.page) ELSE u

\* the fetch gives up one redirection earlier
TooMany_early(redirects) == redirects >= RedirectLimit

\* paginator.rs:78
TooMany(redirects) == redirects > RedirectLimit

\* paginator.rs:82-93, the request for the target u of a redirection
send_to(f, u) ==
    GetPending([f EXCEPT !.u = u, !.redirects = (@ + 1) % 256, !.resp = NoResp],
               <<Request(u, f.resp.loc)>>)

\* paginator.rs:88-93, the Location joined to the URL asked for
redirect_to(f, j) ==
    IF ~j.ok THEN GetErr(f, j.err) ELSE send_to(f, ForceHttps(f.uri, j.url))

\* a redirection without Location is answered by asking again
redirected_again(f) ==
    IF TooMany(f.redirects) THEN GetErr(f, "TooManyRedirects")
    ELSE IF f.resp.loc.kind = "missing"
    THEN GetPending([f EXCEPT !.redirects = (@ + 1) % 256, !.resp = NoResp],
                    <<Request(f.u, f.resp.loc)>>)
    ELSE IF f.resp.loc.kind = "nonutf8" THEN GetErr(f, "RedirectInvalidUTF8")
    ELSE redirect_to(f, join(f.u, f.resp.loc))

\* paginator.rs:78-96, the answer in hand is a redirection
redirected(f) ==
    IF TooMany(f.redirects) THEN GetErr(f, "TooManyRedirects")
    ELSE IF f.resp.loc.kind = "missing" THEN GetErr(f, "RedirectMissing")
    ELSE IF f.resp.loc.kind = "nonutf8" THEN GetErr(f, "RedirectInvalidUTF8")
    ELSE redirect_to(f, join(f.u, f.resp.loc))

\* One poll of the future: it runs up to its next await that is not ready.
poll_get(f) ==
    IF f.phase = "created"
    THEN GetPending([f EXCEPT !.phase = "awaiting"], <<Request(f.u, NoLoc)>>)
    ELSE IF f.resp.kind = "none" THEN GetPending(f, <<>>)
    ELSE IF f.resp.kind = "transport" THEN GetErr(f, "ReqWest")
    ELSE IF f.resp.kind = "redirect" THEN redirected(f)
    ELSE IF f.resp.kind = "ok" THEN GetOk(f, f.resp.body)
    ELSE GetErr(f, "ReqWest")

(***************************************************************************)
(* The Paginator: `current`, `next` (State) and `count`.                   *)
(***************************************************************************)
StateData(d) == [tag |-> "Data", d |-> d]
StateNext(f) == [tag |-> "Next", fut |-> f]
StateFailed == [tag |-> "Failed"]

\* Paginator::new
new(url) == [current |-> url, next |-> StateNext(get(url)), count |-> {}]

NdNone(p) == [p |-> p, kind |-> "None", v |-> 0, err |-> "none"]
NdSome(p, v) == [p |-> p, kind |-> "Some", v |-> v, err |-> "none"]
NdErr(p, e) == [p |-> p, kind |-> "Err", v |-> 0, err |-> e]

\* a pop from the wrong end of the queue
pop_back(q) == [v |-> q[Len(q)], rest |-> SubSeq(q, 1, Len(q) - 1)]

\* paginator.rs:109, VecDeque::pop_front on a non-empty queue
pop_front(q) == [v |-> Head(q), rest |-> Tail(q)]

\* the parse error is returned and the page is kept
parse_failed_keep(p, e) == NdErr(p, e)

\* paginator.rs:120-123, the `next` field is no URL
parse_failed(p, e) == NdErr([p EXCEPT !.next = StateFailed], e)

\* the URL of the following page is built from the current one
follow_computed(p, u) ==
    LET c == Url(p.current.scheme, p.current.page + 1)
    IN  [p EXCEPT !.next = StateNext(get(c)), !.current = c]

\* the fetch is scheduled and `current` is left behind
follow_stale(p, u) == [p EXCEPT !.next = StateNext(get(u))]

\* paginator.rs:116-119, the fetch of the following page
follow(p, u) == [p EXCEPT !.next = StateNext(get(u)), !.current = u]

\* the head is taken and the page is fetched again
take_refetch(p, f) == NdSome([p EXCEPT !.next = StateNext(get(p.current))], f.v)

\* paginator.rs:109-110, the head of the buffered page is taken
take(p, f) == NdSome([p EXCEPT !.next.d.results = f.rest], f.v)

\* paginator.rs:114-124, the parsed `next` field u of the used up page
next_page(p, u) == IF u.ok THEN NdNone(follow(p, u.url)) ELSE parse_failed(p, u.err)

\* paginator.rs:109-125, next_data on a buffered page, `count` being set
next_buffered(p) ==
    IF p.next.d.results # <<>> THEN take(p, pop_front(p.next.d.results))
    ELSE IF p.next.d.next # {}
    THEN next_page(p, parse(CHOOSE n \in p.next.d.next : TRUE))
    ELSE NdNone(p)

\* `count` is set from the first page only
next_data_once(p) ==
    IF p.next.tag = "Data"
    THEN next_buffered([p EXCEPT !.count = IF @ = {} THEN {p.next.d.count} ELSE @])
    ELSE NdNone(p)

\* Paginator::next_data
next_data(p) ==
    IF p.next.tag = "Data"
    THEN next_buffered([p EXCEPT !.count = {p.next.d.count}])
    ELSE NdNone(p)

PollPending(p, sent) == [p |-> p, kind |-> "Pending", v |-> 0, err |-> "none", sent |-> sent]
PollItem(p, v) == [p |-> p, kind |-> "Item", v |-> v, err |-> "none", sent |-> <<>>]
PollErr(p, e) == [p |-> p, kind |-> "Err", v |-> 0, err |-> e, sent |-> <<>>]

\* at the end of the sequence the last page is fetched again
PollEnd_refetch(p) ==
    [p |-> [p EXCEPT !.next = StateNext(get(p.current))], kind |-> "Pending",
     v |-> 0, err |-> "none", sent |-> <<>>]

\* paginator.rs:165-167, the end of the sequence
PollEnd(p) == [p |-> p, kind |-> "End", v |-> 0, err |-> "none", sent |-> <<>>]

\* the errors of a redirection that cannot be followed
RedirectErrs == {"TooManyRedirects", "RedirectMissing", "RedirectInvalidUTF8"}

\* a failed fetch ends the sequence
Reschedule_fail(p, e) == [p EXCEPT !.next = StateFailed]

\* a fetch that failed on a redirection ends the sequence
Reschedule_unless_redirect(p, e) ==
    IF e \in RedirectErrs THEN [p EXCEPT !.next = StateFailed]
    ELSE [p EXCEPT !.next = StateNext(get(p.current))]

\* paginator.rs:152-153, the request scheduled after a fetch failed with e
Reschedule(p, e) == [p EXCEPT !.next = StateNext(get(p.current))]

\* paginator.rs:157-161, the page just received is looked at
poll_page(b) ==
    IF b.kind = "Err" THEN PollErr(b.p, b.err)
    ELSE IF b.kind = "Some" THEN PollItem(b.p, b.v)
    ELSE PollPending(b.p, <<>>)

\* paginator.rs:148-163, the outcome g of polling the fetch of `me`
poll_fetch(me, g) ==
    IF ~g.done THEN PollPending([me EXCEPT !.next = StateNext(g.fut)], g.sent)
    ELSE IF ~g.ok THEN PollErr(Reschedule(me, g.err), g.err)
    ELSE poll_page(next_data([me EXCEPT !.next = StateData(g.body)]))

\* paginator.rs:143-167, poll_next after its first call of next_data
poll_rest(a) ==
    IF a.kind = "Err" THEN PollErr(a.p, a.err)
    ELSE IF a.kind = "Some" THEN PollItem(a.p, a.v)
    ELSE IF a.p.next.tag = "Next" THEN poll_fetch(a.p, poll_get(a.p.next.fut))
    ELSE PollEnd(a.p)

\* <Paginator as Stream>::poll_next
Paginator_poll_next(p) == poll_rest(next_data(p))

(***************************************************************************)
(* The Lava proxy (lib.rs): `tags` is the cache, a HashMap kept as the set *)
(* of its entries, and `writer` tells that the write half of the RwLock is *)
(* held.  A tag is its id and its name; names are numbers.                 *)
(***************************************************************************)
MaxTags == 2

\* the names a tag may have, in the order in which it takes them
Names == {1, 2}

\* tag.rs:7-14, a tag record
Tag(id, name) == [id |-> id, name |-> name]

\* the entry is stored under the id of the first tag cached
cache_insert_first(c, k, v) ==
    IF \E e \in c : e.key = k THEN c ELSE c \cup {[key |-> k, tag |-> v]}

\* HashMap::insert, lib.rs:137
cache_insert(c, k, v) == {e \in c : e.key # k} \cup {[key |-> k, tag |-> v]}

\* HashMap::get, lib.rs:148 and lib.rs:155: the Option is the set of at most
\* one tag
cache_get(c, k) == {e.tag : e \in {x \in c : x.key = k}}

\* HashMap::values, lib.rs:165
cache_values(c) == {e.tag : e \in c}

\* Lava::new, the empty cache
NewLava == [tags |-> {}, writer |-> FALSE]

\* lib.rs:134, the URL of the first page of the tag collection
TagsUrl == Url("https", 1)

\* a Paginator that is not in use
NoPaginator == [current |-> TagsUrl, next |-> StateFailed, count |-> {}]

\* the write half of the lock is handed out while it is held
write_free_always(lv) == TRUE

\* RwLock::write, lib.rs:133: the guard is given when nobody holds the lock;
\* a read guard is never held across an await
write_free(lv) == ~lv.writer

\* RwLock::read, lib.rs:147, lib.rs:154 and lib.rs:164
read_free(lv) == ~lv.writer

\* the refresh starts from an empty cache
refresh_begin_clear(lv) == [lv EXCEPT !.writer = TRUE, !.tags = {}]

\* lib.rs:133, the refresh holds the write guard from here on
refresh_begin(lv) == [lv EXCEPT !.writer = TRUE]

\* what one poll of refresh_tags gives: `got` are the tags it took from the
\* Paginator, `ok` and `err` the Result when it is done
RefreshPending(tp, lv, sent, got) ==
    [done |-> FALSE, tp |-> tp, lv |-> lv, sent |-> sent, got |-> got,
     ok |-> FALSE, err |-> "none"]
RefreshDone(tp, lv, got, ok, err) ==
    [done |-> TRUE, tp |-> tp, lv |-> lv, sent |-> <<>>, got |-> got,
     ok |-> ok, err |-> err]

\* lib.rs:136-140, the loop of Lava::refresh_tags over the tag Paginator tp;
\* the write guard is dropped when the loop is left, by `?` or at its end.
RECURSIVE refresh_loop(_, _, _)

\* after an error the loop waits for the fetch the Paginator scheduled again
refresh_step_retry(r, lv, got) ==
    CASE r.kind = "Pending" -> RefreshPending(r.p, lv, r.sent, got)
      [] r.kind = "Item" ->
            refresh_loop(r.p, [lv EXCEPT !.tags = cache_insert(@, r.v.id, r.v)],
                         Append(got, r.v))
      [] r.kind = "Err" -> RefreshPending(r.p, lv, <<>>, got)
      [] OTHER -> RefreshDone(r.p, [lv EXCEPT !.writer = FALSE], got, TRUE, "none")

\* lib.rs:136-140, what try_next gave: r is the poll of the tag Paginator
refresh_step(r, lv, got) ==
    CASE r.kind = "Pending" -> RefreshPending(r.p, lv, r.sent, got)
      [] r.kind = "Item" ->
            refresh_loop(r.p, [lv EXCEPT !.tags = cache_insert(@, r.v.id, r.v)],
                         Append(got, r.v))
      [] r.kind = "Err" ->
            RefreshDone(r.p, [lv EXCEPT !.writer = FALSE], got, FALSE, r.err)
      [] OTHER -> RefreshDone(r.p, [lv EXCEPT !.writer = FALSE], got, TRUE, "none")

refresh_loop(tp, lv, got) == refresh_step(Paginator_poll_next(tp), lv, got)

(***************************************************************************)
(* The enrichment streams Devices and Jobs (device.rs, job.rs).            *)
(* A raw record is the number the server lists it under; the tag ids it    *)
(* carries are fixed by RawTags and RawFailureTags.  Ids above MaxTags are *)
(* not tags of the server.                                                 *)
(***************************************************************************)
\* LavaDevice::tags, LavaJob::tags
RawTags(i) == IF i % 2 = 1 THEN <<MaxTags + 1, 1>> ELSE <<2>>

\* LavaJob::failure_tags
RawFailureTags(i) == IF i % 2 = 1 THEN <<>> ELSE <<1, MaxTags + 1>>

\* the ids that transform_device and transform_job look up, in this order
LookupIds(kind, i) ==
    IF kind = "job" THEN RawTags(i) \o RawFailureTags(i) ELSE RawTags(i)

\* the future of transform_device / transform_job for the raw record i:
\* pos is the id being looked up, `step` the await of Lava::tag it is at,
\* tp the tag Paginator of the refresh in progress; `seen` remembers, for
\* each id looked up, the keys the cache held when Lava::tag returned
transform(kind, i) ==
    [kind |-> kind, raw |-> i, pos |-> 1, tags |-> <<>>, failure_tags |-> <<>>,
     step |-> "read", tp |-> NoPaginator, seen |-> <<>>]

transform_device(i) == transform("device", i)
transform_job(i) == transform("job", i)

\* Device / Job, the enriched record
Enriched(t) == [id |-> t.raw, tags |-> t.tags, failure_tags |-> t.failure_tags]
NoItem == [id |-> 0, tags |-> <<>>, failure_tags |-> <<>>]

TransformPending(t, lv, sent) ==
    [done |-> FALSE, fut |-> t, lv |-> lv, item |-> NoItem, sent |-> sent]
TransformReady(t, lv) ==
    [done |-> TRUE, fut |-> t, lv |-> lv, item |-> Enriched(t), sent |-> <<>>]

\* the next id is looked up; `keys` are the keys the cache held for this one
looked_up(t, keys) ==
    [t EXCEPT !.pos = @ + 1, !.step = "read", !.tp = NoPaginator,
              !.seen = Append(@, keys)]

\* every id is collected, found or not
collect_all(t, lv) ==
    IF t.pos <= Len(RawTags(t.raw))
    THEN [looked_up(t, {e.key : e \in lv.tags})
              EXCEPT !.tags = Append(@, LookupIds(t.kind, t.raw)[t.pos])]
    ELSE [looked_up(t, {e.key : e \in lv.tags})
              EXCEPT !.failure_tags = Append(@, LookupIds(t.kind, t.raw)[t.pos])]

\* filter_map: the tag found for the id at pos is collected, a miss is left out
collect(t, lv) ==
    IF cache_get(lv.tags, LookupIds(t.kind, t.raw)[t.pos]) = {}
    THEN looked_up(t, {e.key : e \in lv.tags})
    ELSE IF t.pos <= Len(RawTags(t.raw))
    THEN [looked_up(t, {e.key : e \in lv.tags})
              EXCEPT !.tags = Append(@, LookupIds(t.kind, t.raw)[t.pos])]
    ELSE [looked_up(t, {e.key : e \in lv.tags})
              EXCEPT !.failure_tags = Append(@, LookupIds(t.kind, t.raw)[t.pos])]

\* One poll of the transform future: the calls of Lava::tag (lib.rs:144-156)
\* for the ids from pos on, up to the first await that is not ready.
RECURSIVE poll_transform(_, _)

\* lib.rs:152-155, the refresh r was polled: its result is dropped and the
\* cache is read again
refreshed(t, r) ==
    IF r.done THEN poll_transform(collect(t, r.lv), r.lv)
    ELSE TransformPending([t EXCEPT !.tp = r.tp], r.lv, r.sent)

poll_transform(t, lv) ==
    IF t.pos > Len(LookupIds(t.kind, t.raw)) THEN TransformReady(t, lv)
    ELSE CASE t.step = "read" ->
                IF cache_get(lv.tags, LookupIds(t.kind, t.raw)[t.pos]) # {}
                THEN poll_transform(collect(t, lv), lv)
                ELSE poll_transform([t EXCEPT !.step = "write"], lv)
           [] t.step = "write" ->
                IF ~write_free(lv) THEN TransformPending(t, lv, <<>>)
                ELSE poll_transform([t EXCEPT !.step = "refresh",
                                              !.tp = new(TagsUrl)],
                                    refresh_begin(lv))
           [] OTHER -> refreshed(t, refresh_loop(t.tp, lv, <<>>))

\* the State / PagingState of a stream
Paging == [state |-> "Paging"]
Transforming(t) == [state |-> "Transforming", fut |-> t]

StreamOut(es, p, lv, kind, item, err) ==
    [es |-> es, p |-> p, lv |-> lv, kind |-> kind, item |-> item, err |-> err,
     sent |-> <<>>, raw |-> <<>>, seen |-> <<>>]

\* the item in hand is dropped when its enrichment is not ready
transform_pending_drop(t, p, lv) ==
    StreamOut(Paging, p, lv, "Pending", NoItem, "none")

\* device.rs:129, job.rs:365, the enrichment is not ready
transform_pending(t, p, lv) ==
    StreamOut(Transforming(t), p, lv, "Pending", NoItem, "none")

\* an item none of whose tags resolved is not yielded
transformed_tagged(p, q) ==
    IF q.done /\ q.item.tags = <<>> /\ q.item.failure_tags = <<>>
    THEN StreamOut(Paging, p, q.lv, "Pending", NoItem, "none")
    ELSE IF q.done
    THEN [StreamOut(Paging, p, q.lv, "Item", q.item, "none")
              EXCEPT !.seen = q.fut.seen]
    ELSE transform_pending(q.fut, p, q.lv)

\* device.rs:124-130, job.rs:360-366, the arm Transforming: q is the poll of
\* the transform future
transformed(p, q) ==
    IF q.done
    THEN [StreamOut(Paging, p, q.lv, "Item", q.item, "none")
              EXCEPT !.seen = q.fut.seen]
    ELSE transform_pending(q.fut, p, q.lv)

\* the poll of the transform future t
poll_transforming(t, p, lv) == transformed(p, poll_transform(t, lv))

\* an error of the Paginator is kept back and the stream is polled again later
paged_quiet(kind, es, lv, r) ==
    CASE r.kind = "End" -> StreamOut(es, r.p, lv, "End", NoItem, "none")
      [] r.kind = "Err" -> StreamOut(es, r.p, lv, "Pending", NoItem, "none")
      [] r.kind = "Pending" ->
            [StreamOut(es, r.p, lv, "Pending", NoItem, "none") EXCEPT !.sent = r.sent]
      [] OTHER ->
            [poll_transforming(IF kind = "job" THEN transform_job(r.v)
                               ELSE transform_device(r.v), r.p, lv)
                 EXCEPT !.raw = <<r.v>>]

\* device.rs:114-122, job.rs:350-358, the arm Paging: r is the poll of the
\* Paginator
paged(kind, es, lv, r) ==
    CASE r.kind = "End" -> StreamOut(es, r.p, lv, "End", NoItem, "none")
      [] r.kind = "Err" -> StreamOut(es, r.p, lv, "Err", NoItem, r.err)
      [] r.kind = "Pending" ->
            [StreamOut(es, r.p, lv, "Pending", NoItem, "none") EXCEPT !.sent = r.sent]
      [] OTHER ->
            [poll_transforming(IF kind = "job" THEN transform_job(r.v)
                               ELSE transform_device(r.v), r.p, lv)
                 EXCEPT !.raw = <<r.v>>]

\* device.rs:110-132, job.rs:346-368, the loop of poll_next
stream_poll_next(kind, es, p, lv) ==
    IF es.state = "Paging" THEN paged(kind, es, lv, Paginator_poll_next(p))
    ELSE poll_transforming(es.fut, p, lv)

\* <Devices as Stream>::poll_next
Devices_poll_next(es, p, lv) == stream_poll_next("device", es, p, lv)

\* <Jobs as Stream>::poll_next
Jobs_poll_next(es, p, lv) == stream_poll_next("job", es, p, lv)

(***************************************************************************)
(* Calls of Lava::tag, Lava::tags and Lava::refresh_tags (lib.rs:131-166), *)
(* each a future that its task drives from one await to the next.          *)
(*   op    the method called, `id` the argument of Lava::tag               *)
(*   pc    the await the call is at: "read1" is lib.rs:147, "write" is     *)
(*         lib.rs:133, "page" is lib.rs:136, "read2" is lib.rs:154 or      *)
(*         lib.rs:164; "done" when it returned or was dropped              *)
(*   tp    the tag Paginator of its refresh                                *)
(*   rok   whether its refresh returned Ok                                 *)
(*   ret   what it returned                                                *)
(* and what is remembered of the call: `was` tells that the id was cached  *)
(* at the first read, nref and nreq count the refreshes it started and the *)
(* requests it sent, snap is the cache its refresh found, served are the   *)
(* tags the server sent to its refresh.                                    *)
(***************************************************************************)
Tasks == {1, 2}

NoRet == [kind |-> "none", v |-> {}]

IdleTask ==
    [op |-> "idle", id |-> 0, pc |-> "idle", tp |-> NoPaginator, rok |-> FALSE,
     ret |-> NoRet, was |-> FALSE, nref |-> 0, nreq |-> 0, snap |-> {},
     served |-> {}]

\* lib.rs:144, Lava::tag is called
tag_call(id) == [IdleTask EXCEPT !.op = "tag", !.id = id, !.pc = "read1"]

\* lib.rs:162, Lava::tags is called
tags_call == [IdleTask EXCEPT !.op = "tags", !.pc = "write"]

\* lib.rs:131, Lava::refresh_tags is called
refresh_tags_call == [IdleTask EXCEPT !.op = "refresh", !.pc = "write"]

\* the call returns: its future is gone, and what is kept of it is the
\* method, the argument, what it returned, `was` and the two counts
Return(t, kind, v) ==
    [IdleTask EXCEPT !.op = t.op, !.id = t.id, !.pc = "done", !.was = t.was,
                     !.nref = t.nref, !.nreq = t.nreq,
                     !.ret = [kind |-> kind, v |-> v]]

\* the cache is not looked at before the refresh
tag_first_read_skip(t, found) == [t EXCEPT !.pc = "write"]

\* lib.rs:146-151, the first read of Lava::tag found `found` in the cache
tag_first_read(t, found) ==
    IF found # {} THEN Return(t, "Some", found) ELSE [t EXCEPT !.pc = "write"]

\* nothing is returned when the refresh failed
tag_reread_unless_failed(t, found) ==
    IF found # {} /\ t.rok THEN Return(t, "Some", found)
    ELSE Return(t, "None", {})

\* lib.rs:154-155, the second read of Lava::tag
tag_reread(t, found) ==
    IF found # {} THEN Return(t, "Some", found) ELSE Return(t, "None", {})

\* lib.rs:164-165, the read of Lava::tags
tags_read(t, c) == Return(t, "Ok", cache_values(c))

\* lib.rs:133-135, the refresh of the call t starts
refresh_start(t) == [t EXCEPT !.pc = "page", !.tp = new(TagsUrl)]

\* lib.rs:152, lib.rs:163 and lib.rs:140: the refresh of the call t was
\* polled and gave r; Lava::tag drops its Result, Lava::tags returns its
\* error, Lava::refresh_tags returns it
refresh_polled(t, r) ==
    IF ~r.done THEN [t EXCEPT !.tp = r.tp]
    ELSE IF t.op = "tag"
    THEN [t EXCEPT !.pc = "read2", !.tp = NoPaginator, !.rok = r.ok]
    ELSE IF ~r.ok THEN Return(t, "Err", {})
    ELSE IF t.op = "tags"
    THEN [t EXCEPT !.pc = "read2", !.tp = NoPaginator, !.rok = TRUE]
    ELSE Return(t, "Ok", {})

\* the future of the call t is dropped; a write guard it holds is released
drop_guard(t, lv) == IF t.pc = "page" THEN [lv EXCEPT !.writer = FALSE] ELSE lv

(***************************************************************************)
(* The server: a stable collection of srv.n items served in pages of       *)
(* srv.ps items; srv.link[k] is the form in which page k gives its `next`. *)
(***************************************************************************)
Min(a, b) == IF a < b THEN a ELSE b

AllItems(n) == [i \in 1..n |-> i]

PageItems(s, k) ==
    [i \in 1..(Min(k * s.ps, s.n) - (k - 1) * s.ps) |-> (k - 1) * s.ps + i]

HasNext(s, k) == k * s.ps < s.n

NextLink(s, k, scheme) ==
    CASE s.link[k] = "abs" -> AbsStr(scheme, k + 1)
      [] s.link[k] = "rel" -> RelStr(k + 1)
      [] OTHER -> BadStr

\* the page the server returns for a successful GET of `u`
ServePage(s, u) ==
    [count |-> s.n + s.drift * (u.page - 1),
     next |-> IF HasNext(s, u.page) THEN {NextLink(s, u.page, u.scheme)} ELSE {},
     results |-> PageItems(s, u.page)]

\* the number of pages in which n items are served, ps items a page
NumPages(n, ps) == IF n = 0 THEN 1 ELSE (n + ps - 1) \div ps

\* the servers: n items in pages of ps, the kind of each link to a next
\* page, and by how much the count reported grows from a page to the next
Servers ==
    UNION {[n : {n}, ps : {ps}, link : [1..(NumPages(n, ps) - 1) -> LinkKinds],
            drift : {0, 1}] :
           <<n, ps>> \in (0..MaxItems) \X (1..MaxPageSize)}

\* the tags the server lists: ts[i] is the name of tag i, 0 when the server
\* does not list a tag i
TagList(ts) ==
    SelectSeq([i \in DOMAIN ts |-> Tag(i, ts[i])], LAMBDA t : t.name > 0)

\* page u.page of the listed tags, one tag a page
TagPage(list, u) ==
    [count |-> Len(list),
     next |-> IF u.page < Len(list) THEN {AbsStr(u.scheme, u.page + 1)} ELSE {},
     results |-> IF u.page <= Len(list) THEN <<list[u.page]>> ELSE <<>>]

\* the page the server returns for a successful GET of the tag page `u`
ServeTags(ts, u) == TagPage(TagList(ts), u)

\* the tag collection the server starts with: every tag under its first name
AllTags == [i \in 1..MaxTags |-> 1]

\* Location headers a redirecting server may send for page pg
Locations(pg) ==
    {AbsStr(sc, pg) : sc \in Schemes} \cup {RelStr(pg), BadStr, NoLoc, NonUtf8Loc}

(***************************************************************************)
(* QuerySet (queryset.rs).  The members of an enumeration Q of n members   *)
(* are numbered 1..n; a string is the sequence of its pieces.              *)
(***************************************************************************)
\* queryset.rs:143-153, the names that Display gives the members
VariantNames == <<"State1", "State2", "State3", "State4", "State5">>

\* job.rs:151-152, the field names of the QuerySets of JobsBuilder
FieldNames == {"state", "health"}

\* Q::all() of an enumeration of n members
all(n) == 1..n

\* <Q as Display>::to_string
to_string(v) == <<VariantNames[v]>>

\* Option<HashSet<Q>>
NoValues == [some |-> FALSE, set |-> {}]
SomeValues(s) == [some |-> TRUE, set |-> s]

\* Option<(String, String)>
NoPair == [some |-> FALSE, key |-> <<>>, value |-> <<>>]
SomePair(k, v) == [some |-> TRUE, key |-> k, value |-> v]

\* a new QuerySet holding the empty set
QuerySet_new_empty(field_name) ==
    [values |-> SomeValues({}), field_name |-> field_name]

\* QuerySet::new
QuerySet_new(field_name) == [values |-> NoValues, field_name |-> field_name]

\* the set held, or d when there is none or it is empty
get_or_insert_with_empty(o, d) == IF o.some /\ o.set # {} THEN o.set ELSE d

\* Option::get_or_insert_with: the set held, or d when there is none
get_or_insert_with(o, d) == IF o.some THEN o.set ELSE d

\* the set is replaced by the value included
include_only(q, v) == [q EXCEPT !.values = SomeValues({v})]

\* QuerySet::include
include(q, v) ==
    [q EXCEPT !.values = SomeValues(get_or_insert_with(@, {}) \cup {v})]

\* the value is removed from the set held, the empty set when there is none
exclude_held(q, n, v) ==
    [q EXCEPT !.values = SomeValues(get_or_insert_with(@, {}) \ {v})]

\* QuerySet::exclude, for an enumeration of n members
exclude(q, n, v) ==
    [q EXCEPT !.values = SomeValues(get_or_insert_with(@, all(n)) \ {v})]

\* the orders in which HashSet::iter may produce the members of s
Orders(s) ==
    {it \in [1..Cardinality(s) -> s] : \A x \in s : \E i \in DOMAIN it : it[i] = x}

RECURSIVE comma_join(_)

\* the strings one after the other, with nothing between them
comma_join_bare(strs) ==
    IF strs = <<>> THEN <<>>
    ELSE strs[1] \o comma_join(Tail(strs))

\* [String]::join(",")
comma_join(strs) ==
    IF strs = <<>> THEN <<>>
    ELSE IF Len(strs) = 1 THEN strs[1]
    ELSE strs[1] \o <<",">> \o comma_join(Tail(strs))

\* the only member under the key of a list
query_one_in(q, it) == SomePair(<<q.field_name, "__in">>, to_string(it[1]))

\* queryset.rs:84-87, the arm of one member
query_one(q, it) == SomePair(<<q.field_name>>, to_string(it[1]))

\* queryset.rs:89-97, the arm of a list of members
query_in(q, it) ==
    SomePair(<<q.field_name, "__in">>,
             comma_join([i \in DOMAIN it |-> to_string(it[i])]))

\* QuerySet::query for an enumeration of n members, `it` being the order
\* in which values.iter() produces the set held
query(q, n, it) ==
    IF q.values.some
    THEN CASE Len(it) = 0 -> SomePair(<<q.field_name, "__in">>, <<>>)
           [] Len(it) = 1 -> query_one(q, it)
           [] Len(it) > 1 /\ Len(it) = Cardinality(all(n)) -> NoPair
           [] OTHER -> query_in(q, it)
    ELSE NoPair

(***************************************************************************)
(* JobsBuilder (job.rs) and the URLs that JobsBuilder::query and           *)
(* Devices::new build.  A URL is its path below the base and its query     *)
(* string; an Option of a scalar is the set of at most one value.          *)
(***************************************************************************)
\* job.rs:17-27 and job.rs:36-44, the names that strum's Display gives the
\* members of State and of Health
StateNames ==
    <<"Submitted", "Scheduling", "Scheduled", "Running", "Canceling", "Finished">>
HealthNames == <<"Unknown", "Complete", "Incomplete", "Canceled">>

\* job.rs:52-58
Orderings == {"Id", "StartTime", "EndTime", "SubmitTime"}

\* job.rs:60-69, <Ordering as Display>::to_string
Ordering_to_string(o) ==
    CASE o = "Id" -> <<"id">>
      [] o = "StartTime" -> <<"start_time">>
      [] o = "EndTime" -> <<"end_time">>
      [] OTHER -> <<"submit_time">>

\* the values the setters are called with
StateArgs == {4, 5}
HealthArgs == {3, 4}
LimitArgs == {1, 7}
IdArgs == {-1, 9}
Instants == {1, 2}

\* u32::to_string and i64::to_string, for numbers of one digit
Decimal(n) ==
    IF n < 0 THEN <<"-", <<"1", "2", "3", "4", "5", "6", "7", "8", "9">>[-n]>>
    ELSE <<(<<"0", "1", "2", "3", "4", "5", "6", "7", "8", "9">>)[n + 1]>>

\* DateTime<Utc>::to_rfc3339, for the two instants
to_rfc3339(t) ==
    <<"2022-04-10", "T", IF t = 1 THEN "15" ELSE "16", ":", "55", ":", "00",
      "+", "00", ":", "00">>

\* form_urlencoded::byte_serialize: the pieces that are not left as they are
byte_serialize(str) ==
    [i \in DOMAIN str |->
        CASE str[i] = "," -> "%2C"
          [] str[i] = ":" -> "%3A"
          [] str[i] = "+" -> "%2B"
          [] OTHER -> str[i]]

\* form_urlencoded::parse, the decoding of a name or of a value
percent_decode(str) ==
    [i \in DOMAIN str |->
        CASE str[i] = "%2C" -> ","
          [] str[i] = "%3A" -> ":"
          [] str[i] = "%2B" -> "+"
          [] str[i] = "+" -> " "
          [] OTHER -> str[i]]

\* the first place of x in the string, 0 when it has none
position(str, x) ==
    IF \E i \in DOMAIN str : str[i] = x
    THEN CHOOSE i \in DOMAIN str : str[i] = x /\ \A j \in 1..(i - 1) : str[j] # x
    ELSE 0

\* Url::join of the base with a relative reference: what follows `?` is
\* the query string
base_join(ref) ==
    IF position(ref, "?") = 0 THEN [path |-> ref, query |-> <<>>]
    ELSE [path |-> SubSeq(ref, 1, position(ref, "?") - 1),
          query |-> SubSeq(ref, position(ref, "?") + 1, Len(ref))]

\* Url::query_pairs_mut().append_pair
append_pair(u, name, value) ==
    [u EXCEPT !.query = (IF @ = <<>> THEN <<>> ELSE @ \o <<"&">>)
                            \o byte_serialize(name) \o <<"=">> \o byte_serialize(value)]

RECURSIVE split(_, _)
\* the part of the string before place i, then the parts of what follows it
split_at(str, sep, i) ==
    IF i = 0 THEN <<str>>
    ELSE <<SubSeq(str, 1, i - 1)>> \o split(SubSeq(str, i + 1, Len(str)), sep)

\* the parts of the string between the separators
split(str, sep) ==
    IF str = <<>> THEN <<>> ELSE split_at(str, sep, position(str, sep))

\* the name before place i of a part of a query string, the value after it
name_value(part, i) ==
    [name |-> percent_decode(SubSeq(part, 1, i - 1)),
     value |-> percent_decode(SubSeq(part, i + 1, Len(part)))]

\* form_urlencoded::parse, the pairs of the parts of a query string
parse_pairs(parts) == [i \in DOMAIN parts |-> name_value(parts[i], position(parts[i], "="))]

\* Url::query_pairs, what the server reads in the query string
query_pairs(u) == parse_pairs(split(u.query, "&"))

\* QuerySet::query for an enumeration whose members Display as `names`
query_as(q, names, it) ==
    IF q.values.some
    THEN CASE Len(it) = 0 -> SomePair(<<q.field_name, "__in">>, <<>>)
           [] Len(it) = 1 -> SomePair(<<q.field_name>>, <<names[it[1]]>>)
           [] Len(it) > 1 /\ Len(it) = Len(names) -> NoPair
           [] OTHER -> SomePair(<<q.field_name, "__in">>,
                                comma_join([i \in DOMAIN it |-> <<names[it[i]]>>]))
    ELSE NoPair

RECURSIVE ascending(_)
\* the members of a set of numbers from the least to the greatest
ascending(s) ==
    IF s = {} THEN <<>>
    ELSE <<CHOOSE x \in s : \A y \in s : x <= y>>
             \o ascending(s \ {CHOOSE x \in s : \A y \in s : x <= y})

\* the sequence from its last member to its first
reversed(it) == [i \in DOMAIN it |-> it[Len(it) + 1 - i]]

\* the orders in which a HashSet of the builder is iterated: of all the
\* orders, the two that are taken here
IterationOrders(s) == {ascending(s), reversed(ascending(s))}

\* JobsBuilder::new
JobsBuilder_new ==
    [states |-> QuerySet_new("state"), healths |-> QuerySet_new("health"),
     limit |-> {}, ordering |-> "Id", id_after |-> {}, started_after |-> {},
     submitted_after |-> {}, ended_after |-> {}, ascending |-> TRUE]

\* the setters of JobsBuilder
state(b, v) == [b EXCEPT !.states = include(@, v)]
state_not(b, v) == [b EXCEPT !.states = exclude(@, Len(StateNames), v)]
limit(b, n) == [b EXCEPT !.limit = {n}]
health(b, v) == [b EXCEPT !.healths = include(@, v)]
health_not(b, v) == [b EXCEPT !.healths = exclude(@, Len(HealthNames), v)]
\* the id is taken for the page size as well
id_after_limit(b, id) == [b EXCEPT !.id_after = {id}, !.limit = {id}]
id_after(b, id) == [b EXCEPT !.id_after = {id}]
started_after(b, when) == [b EXCEPT !.started_after = {when}]
submitted_after(b, when) == [b EXCEPT !.submitted_after = {when}]
ended_after(b, when) == [b EXCEPT !.ended_after = {when}]
\* the direction is not taken
ordering_ascending(b, o, asc) == [b EXCEPT !.ordering = o]
ordering(b, o, asc) == [b EXCEPT !.ordering = o, !.ascending = asc]

\* job.rs:268-270 and job.rs:275-277, `if let Some(pair)` of a QuerySet
append_query(u, p) == IF p.some THEN append_pair(u, p.key, p.value) ELSE u

\* job.rs:271-290, `if let Some(x)` of a scalar, strs being x as a string
append_some(u, name, strs) ==
    IF strs = {} THEN u ELSE append_pair(u, name, CHOOSE x \in strs : TRUE)

\* job.rs:252-267, the URL with its `ordering`
jobs_url(b) ==
    append_pair(base_join(<<"jobs/">>), <<"ordering">>,
                (IF b.ascending THEN <<>> ELSE <<"-">>) \o Ordering_to_string(b.ordering))

\* job.rs:268-277, the URL with the states, the limit and the healths; si
\* and hi are the orders in which the two HashSets are iterated
filtered_url(b, si, hi) ==
    append_query(
        append_some(append_query(jobs_url(b), query_as(b.states, StateNames, si)),
                    <<"limit">>, {Decimal(n) : n \in b.limit}),
        query_as(b.healths, HealthNames, hi))

\* JobsBuilder::query, the URL given to Paginator::new
JobsBuilder_query(b, si, hi) ==
    append_some(
        append_some(
            append_some(
                append_some(filtered_url(b, si, hi),
                            <<"id", "__gt">>, {Decimal(n) : n \in b.id_after}),
                <<"start_time", "__gt">>, {to_rfc3339(t) : t \in b.started_after}),
            <<"submit_time", "__gt">>, {to_rfc3339(t) : t \in b.submitted_after}),
        <<"end_time", "__gt">>, {to_rfc3339(t) : t \in b.ended_after})

\* Devices::new, the URL given to Paginator::new
Devices_new == base_join(<<"devices/", "?", "ordering", "=", "hostname">>)

(***************************************************************************)
(* The job log (joblog.rs): JobLogRaw, the stream of the chunks of the     *)
(* body of one HTTP response, and JobLog, which cuts them into lines.  A   *)
(* chunk is a sequence of bytes, and the byte "e" stands for the text of   *)
(* one well-formed log entry.                                              *)
(***************************************************************************)
MaxBytes == 4
MaxChunks == 3
MaxPulls == 8

Bytes == {"e", "x", "\n"}

\* StatusCode::NOT_FOUND, and the least status that error_for_status
\* turns into an error
NOT_FOUND == 404
ClientError == 400

\* the statuses the server answers with
Statuses == {200, NOT_FOUND, 500}

\* what becomes of the request: a response with a status, or a failure of
\* the transport
Answers == {[kind |-> "response", status |-> st] : st \in Statuses}
               \cup {[kind |-> "failure", status |-> 0]}

\* the byte streams of a body
ByteStreams == UNION {[1..n -> Bytes] : n \in 0..MaxBytes}

\* the places where a stream of n bytes is cut into k + 1 chunks
Cuts(k, n) == {c \in [1..k -> 0..n] : \A i \in 1..k, j \in 1..k : i < j => c[i] <= c[j]}

\* the bytes of a stream between two cuts
chunk(bytes, cuts, i) ==
    SubSeq(bytes, (IF i = 1 THEN 0 ELSE cuts[i - 1]) + 1,
           IF i = Len(cuts) + 1 THEN Len(bytes) ELSE cuts[i])

\* the chunks a byte stream arrives in, empty chunks among them
Chunkings(bytes) ==
    {[i \in 1..(Len(cuts) + 1) |-> chunk(bytes, cuts, i)] :
        cuts \in UNION {Cuts(k, Len(bytes)) : k \in 0..(MaxChunks - 1)}}
        \cup (IF bytes = <<>> THEN {<<>>} ELSE {})

\* an item of the stream of a body: a chunk, or an error of the transport
BodyChunk(b) == [ok |-> TRUE, bytes |-> b]
BodyError == [ok |-> FALSE, bytes |-> <<>>]

\* the body that arrives in the chunks cs, with an error after them when
\* the connection breaks
body_of(cs, broken) ==
    [i \in 1..(Len(cs) + (IF broken THEN 1 ELSE 0)) |->
        IF i <= Len(cs) THEN BodyChunk(cs[i]) ELSE BodyError]

\* the bodies that a byte stream arrives as
Bodies(bytes) == {body_of(cs, broken) : cs \in Chunkings(bytes), broken \in BOOLEAN}

\* the far side of a request: the answer and the body; how many of the
\* events (the answer, each item of the body, the end of the body) have
\* arrived and how many were taken by a poll; how many requests were sent;
\* whether a future was polled after it gave its output
Wire(answer, body) ==
    [answer |-> answer, body |-> body, arrived |-> 0, taken |-> 0, sent |-> 0,
     repolled |-> FALSE]

\* the events of a wire
events(w) ==
    IF w.answer.kind = "response" /\ w.answer.status < ClientError
    THEN Len(w.body) + 2 ELSE 1

\* what a poll returns
Pending == [kind |-> "Pending", e |-> "", v |-> <<>>]
ReadyNone == [kind |-> "None", e |-> "", v |-> <<>>]
ReadyOk(v) == [kind |-> "Ok", e |-> "", v |-> v]
ReadyErr(e, v) == [kind |-> "Err", e |-> e, v |-> v]
Panic == [kind |-> "Panic", e |-> "", v |-> <<>>]

\* what a future that has given its output may do when it is polled
Again == {Panic, Pending, ReadyErr("RequestError", <<>>)}

\* a poll leaves the stream as s and the wire as w, and returns ret
polled(s, w, ret) == [s |-> s, wire |-> w, ret |-> ret]

\* JobLogRaw::new
JobLogRaw_new == [state |-> "Initial"]

\* joblog.rs:156-165, the arm LogRequest::Stream
poll_stream(r, w) ==
    IF w.arrived <= w.taken THEN polled(r, w, Pending)
    ELSE IF w.taken > Len(w.body)
    THEN polled([r EXCEPT !.state = "Done"], [w EXCEPT !.taken = @ + 1], ReadyNone)
    ELSE IF w.body[w.taken].ok
    THEN polled(r, [w EXCEPT !.taken = @ + 1], ReadyOk(w.body[w.taken].bytes))
    ELSE polled(r, [w EXCEPT !.taken = @ + 1], ReadyErr("RequestError", <<>>))

\* joblog.rs:154, the future gave Err(e): the state is left as it is
poll_failure(r, w) ==
    polled(r, [w EXCEPT !.taken = 1], ReadyErr("RequestError", <<>>))

\* every error status is a request error
poll_status_plain(r, w) ==
    polled([r EXCEPT !.state = "Done"], [w EXCEPT !.taken = 1],
           ReadyErr("RequestError", <<>>))

\* joblog.rs:145-152, error_for_status gave Err(e)
poll_status(r, w) ==
    polled([r EXCEPT !.state = "Done"], [w EXCEPT !.taken = 1],
           IF w.answer.status = NOT_FOUND THEN ReadyErr("NoData", <<>>)
           ELSE ReadyErr("RequestError", <<>>))

\* joblog.rs:142-155, the arm LogRequest::Request; again is what the
\* future does if it is polled after it gave its output
poll_request(r, w, again) ==
    IF w.taken >= 1 THEN polled(r, [w EXCEPT !.repolled = TRUE], again)
    ELSE IF w.arrived = 0 THEN polled(r, w, Pending)
    ELSE IF w.answer.kind = "failure" THEN poll_failure(r, w)
    ELSE IF w.answer.status >= ClientError THEN poll_status(r, w)
    ELSE poll_stream([r EXCEPT !.state = "Stream"], [w EXCEPT !.taken = 1])

\* <JobLogRaw as Stream>::poll_next
JobLogRaw_poll_next(r, w, again) ==
    CASE r.state = "Initial" ->
             poll_request([r EXCEPT !.state = "Request"], [w EXCEPT !.sent = @ + 1], again)
      [] r.state = "Request" -> poll_request(r, w, again)
      [] r.state = "Stream" -> poll_stream(r, w)
      [] OTHER -> polled(r, w, ReadyNone)

\* JobLog::new
JobLog_new == [buf |-> <<>>, from_buf |-> FALSE, raw |-> JobLogRaw_new]

\* iter().position(|e| e == &b'\n'), counted from 1; 0 for None
eol_position(last) == position(last, "\n")

RECURSIVE concat(_)
\* joblog.rs:268-271, the chunks one after the other
concat(chunks) == IF chunks = <<>> THEN <<>> ELSE Head(chunks) \o concat(Tail(chunks))

\* serde_yaml::from_slice::<JobLogEntry>, with the error mapped
from_slice(l) ==
    IF l = <<"e", "\n">> THEN ReadyOk(l) ELSE ReadyErr("ParseError", l)

\* the whole line is parsed
entry_whole(j, w, line) == polled(j, w, from_slice(line))

\* joblog.rs:283-288, line.slice(1..) and its parsing
entry(j, w, line) ==
    IF line = <<>> THEN polled(j, w, Panic) ELSE polled(j, w, from_slice(Tail(line)))

\* joblog.rs:259-266, the line ends in the only chunk of the buffer
line_of_one(j, w, last, eol) ==
    IF Len(last) = eol
    THEN entry([j EXCEPT !.from_buf = FALSE, !.buf = <<>>], w, last)
    ELSE entry([j EXCEPT !.buf = <<SubSeq(last, eol + 1, Len(last))>>], w,
               SubSeq(last, 1, eol))

\* joblog.rs:267-282, the line began in an earlier chunk
line_of_many(j, w, front, last, eol) ==
    IF Len(last) = eol - 1
    THEN entry([j EXCEPT !.from_buf = FALSE, !.buf = <<>>], w, concat(front) \o last)
    ELSE entry([j EXCEPT !.buf = <<SubSeq(last, eol + 1, Len(last))>>], w,
               concat(front) \o SubSeq(last, 1, eol))

RECURSIVE JobLog_poll_next(_, _, _)

\* joblog.rs:256-291, a pass of the loop with from_buf set, eol being the
\* place of the newline in the last chunk
from_buf_pass(j, w, again, last, eol) ==
    IF eol = 0 THEN JobLog_poll_next([j EXCEPT !.from_buf = FALSE], w, again)
    ELSE IF Len(j.buf) = 1 THEN line_of_one(j, w, last, eol)
    ELSE line_of_many(j, w, SubSeq(j.buf, 1, Len(j.buf) - 1), last, eol)

\* joblog.rs:292-301, a pass of the loop with from_buf clear, p being
\* what the poll of the raw stream gave
raw_pass(j, again, p) ==
    IF p.ret.kind = "Ok"
    THEN JobLog_poll_next([j EXCEPT !.raw = p.s, !.from_buf = TRUE,
                                    !.buf = Append(@, p.ret.v)],
                          p.wire, again)
    ELSE polled([j EXCEPT !.raw = p.s], p.wire, p.ret)

\* <JobLog as Stream>::poll_next
JobLog_poll_next(j, w, again) ==
    IF j.from_buf
    THEN IF j.buf = <<>> THEN polled(j, w, Panic)
         ELSE from_buf_pass(j, w, again, j.buf[Len(j.buf)],
                            eol_position(j.buf[Len(j.buf)]))
    ELSE raw_pass(j, again, JobLogRaw_poll_next(j.raw, w, again))

(***************************************************************************)
(* State.                                                                  *)
(*   srv        the server's collection (constant along a behaviour)       *)
(*   pag        the Paginator                                              *)
(*   last       what the most recent pull returned                         *)
(*   yielded    the Ok items pulled so far                                 *)
(*   errs       the number of errors pulled so far                         *)
(*   surfaced   the kinds of error pulled so far                           *)
(*   fetchReqs  the number of requests sent by the latest page fetch       *)
(*   lastReq    the most recent request, if any                            *)
(*   fetches    the number of page fetches scheduled so far                *)
(*   stream     the stream the consumer pulls: "none" is the Paginator     *)
(*              itself, "device" is Devices and "job" is Jobs              *)
(*   es         the State / PagingState of the stream                      *)
(*   lava       the Lava proxy the stream borrows                          *)
(*   out        the enriched items pulled so far                           *)
(*   looked     for each enriched item pulled, the keys the cache held     *)
(*              when each of its ids was looked up                         *)
(*   tsrv       the tag collection of the server                           *)
(*   tasks      the calls of Lava::tag, Lava::tags and Lava::refresh_tags  *)
(*              in progress, one per task                                  *)
(*   written    for each id, the tag a refresh took last from the server   *)
(*   delivered  the tags the server has sent so far                        *)
(*   variants   the number of members of the enumeration of the QuerySet   *)
(*   qs         the QuerySet                                               *)
(*   calls      the include and exclude calls made on it so far            *)
(*   pair       what query() returned since the last of them, if called    *)
(*   jb         the JobsBuilder; its setter calls are kept in `calls`      *)
(*   url        the URL built for a stream of jobs or devices, if any      *)
(*   jl         the JobLog, the JobLogRaw in it                            *)
(*   wire       the request of the JobLogRaw as the server and the         *)
(*              transport see it                                           *)
(*   logged     which of the two streams the consumer pulls, and what its  *)
(*              pulls returned, the pending ones left out                  *)
(***************************************************************************)
VARIABLES srv, pag, last, yielded, errs, surfaced, fetchReqs, lastReq,
          fetches, stream, es, lava, out, looked, tsrv, tasks, written,
          delivered, variants, qs, calls, pair, jb, url, jl, wire, logged

vars == <<srv, pag, last, yielded, errs, surfaced, fetchReqs, lastReq,
          fetches, stream, es, lava, out, looked, tsrv, tasks, written,
          delivered, variants, qs, calls, pair, jb, url, jl, wire, logged>>

enrichVars == <<stream, es, lava, out, looked>>

\* the consumer of a sequence and what it pulled
pullVars == <<srv, pag, last, yielded, errs, surfaced, fetchReqs, lastReq,
              fetches, stream, es, out, looked>>

\* the tag collection of the server, the tasks that call the Lava proxy
\* and what they saw
cacheVars == <<tsrv, tasks, written, delivered>>

\* a QuerySet and what was done with it
queryVars == <<variants, qs, calls, pair>>

\* a JobsBuilder and the URL built
builderVars == <<jb, url>>

\* a job log, its request and its consumer
logVars == <<jl, wire, logged>>

NoPull == [kind |-> "NoPull", v |-> 0, err |-> "none"]

\* no call of the Lava proxy was made and the server lists every tag
NoCalls ==
    /\ tsrv = AllTags
    /\ tasks = [t \in Tasks |-> IdleTask]
    /\ written = [i \in 1..MaxTags |-> {}]
    /\ delivered = {}

\* no QuerySet is in use
NoQuerySet ==
    /\ variants = 1
    /\ qs = QuerySet_new("state")
    /\ calls = <<>>
    /\ pair = {}

\* no JobsBuilder is in use and no URL was built
NoBuilder ==
    /\ jb = JobsBuilder_new
    /\ url = {}

\* no job log is in use
NoLog ==
    /\ jl = JobLog_new
    /\ wire = Wire([kind |-> "response", status |-> 200], <<>>)
    /\ logged = [mode |-> "raw", got |-> <<>>]

Init ==
    /\ srv \in Servers
    /\ \E sc \in Schemes : pag = new(Url(sc, 1))
    /\ last = NoPull
    /\ yielded = <<>>
    /\ errs = 0
    /\ surfaced = {}
    /\ fetchReqs = 0
    /\ lastReq = {}
    /\ fetches = 1
    /\ stream = "none"
    /\ es = Paging
    /\ lava = NewLava
    /\ out = <<>>
    /\ looked = <<>>
    /\ NoCalls
    /\ NoQuerySet
    /\ NoBuilder
    /\ NoLog

\* a fetch that has not been polled yet
Fresh(p) == p.next.tag = "Next" /\ p.next.fut.phase = "created"

\* a poll that took p to q scheduled a new page fetch
Started(p, q) == Fresh(q) \/ (p.next.tag = "Data" /\ q.next.tag = "Next")

\* what a pull that returned r leaves of the Paginator and of its history
Pulled(r) ==
    /\ pag' = r.p
    /\ errs' = IF r.kind = "Err" THEN errs + 1 ELSE errs
    /\ surfaced' = IF r.kind = "Err" THEN surfaced \cup {r.err} ELSE surfaced
    /\ fetchReqs' = IF Started(pag, r.p) THEN Len(r.sent)
                     ELSE fetchReqs + Len(r.sent)
    /\ lastReq' = IF r.sent # <<>> THEN {r.sent[1]} ELSE lastReq
    /\ fetches' = IF Started(pag, r.p) THEN fetches + 1 ELSE fetches

PullResult(r) ==
    /\ Pulled(r)
    /\ last' = [kind |-> r.kind, v |-> r.v, err |-> r.err]
    /\ yielded' = IF r.kind = "Item" THEN Append(yielded, r.v) ELSE yielded
    /\ UNCHANGED <<srv, enrichVars, cacheVars, queryVars, builderVars, logVars>>

\* the consumer pulls the Paginator once
Pull == PullResult(Paginator_poll_next(pag))

Awaiting(p) ==
    /\ p.next.tag = "Next"
    /\ p.next.fut.phase = "awaiting"
    /\ p.next.fut.resp.kind = "none"

Answer(resp) ==
    /\ pag' = [pag EXCEPT !.next = StateNext([pag.next.fut EXCEPT !.resp = resp])]
    /\ UNCHANGED <<srv, last, yielded, errs, surfaced, fetchReqs, lastReq,
                   fetches, enrichVars, cacheVars, queryVars, builderVars, logVars>>

\* the server answers the request in flight with the page
RespondOk ==
    /\ Awaiting(pag)
    /\ Answer(OkResp(ServePage(srv, pag.next.fut.u)))

\* the request in flight fails: transport, error status or undecodable body
RespondFailure ==
    /\ Awaiting(pag)
    /\ errs < MaxErrors
    /\ \E k \in ReqwestFailures : Answer(ErrResp(k))

\* the server answers the request in flight with a redirect
RespondRedirect ==
    /\ Awaiting(pag)
    /\ errs < MaxErrors
    /\ \E l \in Locations(pag.next.fut.u.page) : Answer(RedirectResp(l))

Next == Pull \/ RespondOk \/ RespondFailure \/ RespondRedirect

Spec == Init /\ [][Next]_vars

(***************************************************************************)
(* A consumer of Devices or Jobs.  The raw records come from a server      *)
(* whose `next` links are absolute; `yielded` holds the raw records the    *)
(* Paginator of the stream produced.                                       *)
(***************************************************************************)
InitEnrich ==
    /\ srv \in {s \in Servers : \A k \in DOMAIN s.link : s.link[k] = "abs"}
    /\ pag = new(Url("https", 1))
    /\ last = NoPull
    /\ yielded = <<>>
    /\ errs = 0
    /\ surfaced = {}
    /\ fetchReqs = 0
    /\ lastReq = {}
    /\ fetches = 1
    /\ stream \in {"device", "job"}
    /\ es = Paging
    /\ lava = NewLava
    /\ out = <<>>
    /\ looked = <<>>
    /\ NoCalls
    /\ NoQuerySet
    /\ NoBuilder
    /\ NoLog

EnrichPullResult(r) ==
    /\ Pulled(r)
    /\ es' = r.es
    /\ lava' = r.lv
    /\ last' = [kind |-> r.kind, v |-> r.item.id, err |-> r.err]
    /\ out' = IF r.kind = "Item" THEN Append(out, r.item) ELSE out
    /\ looked' = IF r.kind = "Item" THEN Append(looked, r.seen) ELSE looked
    /\ yielded' = yielded \o r.raw
    /\ UNCHANGED <<srv, stream, cacheVars, queryVars, builderVars, logVars>>

\* the consumer pulls the stream once
EnrichPull ==
    EnrichPullResult(IF stream = "job" THEN Jobs_poll_next(es, pag, lava)
                     ELSE Devices_poll_next(es, pag, lava))

\* the refresh of the transform in progress waits for a page of tags
AwaitingTags ==
    /\ es.state = "Transforming"
    /\ es.fut.step = "refresh"
    /\ Awaiting(es.fut.tp)

AnswerTags(resp) ==
    /\ es' = Transforming([es.fut EXCEPT !.tp.next.fut.resp = resp])
    /\ UNCHANGED <<srv, pag, last, yielded, errs, surfaced, fetchReqs, lastReq,
                   fetches, stream, lava, out, looked, cacheVars, queryVars, builderVars, logVars>>

\* the server answers the tag request in flight with the page of tags
RespondTagOk ==
    /\ AwaitingTags
    /\ AnswerTags(OkResp(ServeTags(tsrv, es.fut.tp.next.fut.u)))

\* the tag request in flight fails
RespondTagFailure ==
    /\ AwaitingTags
    /\ \E k \in ReqwestFailures : AnswerTags(ErrResp(k))

NextEnrich ==
    EnrichPull \/ RespondOk \/ RespondFailure \/ RespondTagOk \/ RespondTagFailure

SpecEnrich == InitEnrich /\ [][NextEnrich]_vars

(***************************************************************************)
(* Tasks that call Lava::tag, Lava::tags and Lava::refresh_tags on one     *)
(* Lava proxy while the server renames and removes tags.  A step is what a *)
(* call does from one await to the next; each task makes one call, the     *)
(* tasks being numbered in the order of their calls.                       *)
(***************************************************************************)
\* the cache after a refresh that took the tags ts from the server
Refreshed(ts) == {[key |-> i, tag |-> Tag(i, ts[i])] : i \in DOMAIN ts}

\* the Lava proxy is new, or it has refreshed its cache once
InitCache ==
    /\ srv = [n |-> 0, ps |-> 1, link |-> <<>>, drift |-> 0]
    /\ pag = new(Url("https", 1))
    /\ last = NoPull
    /\ yielded = <<>>
    /\ errs = 0
    /\ surfaced = {}
    /\ fetchReqs = 0
    /\ lastReq = {}
    /\ fetches = 1
    /\ stream = "none"
    /\ es = Paging
    /\ out = <<>>
    /\ looked = <<>>
    /\ NoQuerySet
    /\ NoBuilder
    /\ NoLog
    /\ tsrv = AllTags
    /\ tasks = [t \in Tasks |-> IdleTask]
    /\ \/ /\ lava = NewLava
          /\ written = [i \in 1..MaxTags |-> {}]
          /\ delivered = {}
       \/ /\ lava = [NewLava EXCEPT !.tags = Refreshed(AllTags)]
          /\ written = [i \in 1..MaxTags |-> {Tag(i, AllTags[i])}]
          /\ delivered = {Tag(i, AllTags[i]) : i \in 1..MaxTags}

\* the ids a task may look up: the ids of the tags and an id that is no tag
LookupSet == 1..(MaxTags + 1)

Begin(t, call) ==
    /\ tasks[t].pc = "idle"
    /\ \A u \in Tasks : u < t => tasks[u].pc # "idle"
    /\ tasks' = [tasks EXCEPT ![t] = call]
    /\ UNCHANGED <<pullVars, queryVars, builderVars, logVars, lava, tsrv, written, delivered>>

\* task t calls Lava::tag
CallTag(t) == \E id \in LookupSet : Begin(t, tag_call(id))

\* task t calls Lava::tags
CallTags(t) == Begin(t, tags_call)

\* task t calls Lava::refresh_tags
CallRefresh(t) == Begin(t, refresh_tags_call)

\* lib.rs:146-151, task t reads the cache for the first time
FirstRead(t) ==
    /\ tasks[t].pc = "read1"
    /\ read_free(lava)
    /\ tasks' = [tasks EXCEPT ![t] =
                   [tag_first_read(@, cache_get(lava.tags, @.id))
                        EXCEPT !.was = \E e \in lava.tags : e.tag.id = tasks[t].id]]
    /\ UNCHANGED <<pullVars, queryVars, builderVars, logVars, lava, tsrv, written, delivered>>

\* lib.rs:133-135, task t gets the write guard and builds the tag Paginator
AcquireWrite(t) ==
    /\ tasks[t].pc = "write"
    /\ write_free(lava)
    /\ lava' = refresh_begin(lava)
    /\ tasks' = [tasks EXCEPT ![t] =
                   [refresh_start(@) EXCEPT !.nref = @ + 1, !.snap = lava.tags]]
    /\ UNCHANGED <<pullVars, queryVars, builderVars, logVars, tsrv, written, delivered>>

\* the tag each id was given last in `got`, over what was written before
Overwritten(w, got) ==
    [k \in DOMAIN w |->
        IF \E i \in DOMAIN got : got[i].id = k
        THEN {got[CHOOSE i \in DOMAIN got :
                     /\ got[i].id = k
                     /\ \A j \in DOMAIN got : got[j].id = k => j <= i]}
        ELSE w[k]]

\* the refresh of task t was polled and gave r
RefreshPolled(t, r) ==
    /\ lava' = r.lv
    /\ tasks' = [tasks EXCEPT ![t] =
                   [refresh_polled(@, r) EXCEPT !.nreq = @ + Len(r.sent)]]
    /\ written' = Overwritten(written, r.got)
    /\ UNCHANGED <<pullVars, queryVars, builderVars, logVars, tsrv, delivered>>

\* lib.rs:136-140, task t polls its refresh
RefreshPoll(t) ==
    /\ tasks[t].pc = "page"
    /\ ~Awaiting(tasks[t].tp)
    /\ RefreshPolled(t, refresh_loop(tasks[t].tp, lava, <<>>))

\* lib.rs:154-155 and lib.rs:164-165, task t reads the cache after its refresh
Reread(t) ==
    /\ tasks[t].pc = "read2"
    /\ read_free(lava)
    /\ tasks' = [tasks EXCEPT ![t] =
                   IF @.op = "tag" THEN tag_reread(@, cache_get(lava.tags, @.id))
                   ELSE tags_read(@, lava.tags)]
    /\ UNCHANGED <<pullVars, queryVars, builderVars, logVars, lava, tsrv, written, delivered>>

\* the refresh of task t waits for a page of tags
AwaitingTagsOf(t) == tasks[t].pc = "page" /\ Awaiting(tasks[t].tp)

\* the page of tags pg answers the request of task t
TagsAnswered(t, pg) ==
    /\ tasks' = [tasks EXCEPT ![t].tp.next.fut.resp = OkResp(pg),
                              ![t].served = @ \cup {pg.results[i] : i \in DOMAIN pg.results}]
    /\ delivered' = delivered \cup {pg.results[i] : i \in DOMAIN pg.results}
    /\ UNCHANGED <<pullVars, queryVars, builderVars, logVars, lava, tsrv, written>>

\* the server answers the tag request of task t with the page of tags
ServeTagsTo(t) ==
    /\ AwaitingTagsOf(t)
    /\ TagsAnswered(t, ServeTags(tsrv, tasks[t].tp.next.fut.u))

\* the tag request of task t fails
FailTagsOf(t) ==
    /\ AwaitingTagsOf(t)
    /\ \E k \in ReqwestFailures :
          tasks' = [tasks EXCEPT ![t].tp.next.fut.resp = ErrResp(k)]
    /\ UNCHANGED <<pullVars, queryVars, builderVars, logVars, lava, tsrv, written, delivered>>

\* the future of the call of task t is dropped before it returned
Drop(t) ==
    /\ tasks[t].pc \in {"read1", "write", "page", "read2"}
    /\ lava' = drop_guard(tasks[t], lava)
    /\ tasks' = [tasks EXCEPT ![t] = Return(@, "Dropped", {})]
    /\ UNCHANGED <<pullVars, queryVars, builderVars, logVars, tsrv, written, delivered>>

MaxChanges == 1

\* the number of tags the server has renamed or removed
Changes(ts) == Cardinality({i \in DOMAIN ts : ts[i] # AllTags[i]})

\* the server gives tag i its next name
Rename(i) ==
    /\ Changes(tsrv) < MaxChanges
    /\ tsrv[i] + 1 \in Names
    /\ tsrv' = [tsrv EXCEPT ![i] = @ + 1]
    /\ UNCHANGED <<pullVars, queryVars, builderVars, logVars, lava, tasks, written, delivered>>

\* the server removes tag i
Remove(i) ==
    /\ Changes(tsrv) < MaxChanges
    /\ tsrv[i] > 0
    /\ tsrv' = [tsrv EXCEPT ![i] = 0]
    /\ UNCHANGED <<pullVars, queryVars, builderVars, logVars, lava, tasks, written, delivered>>

NextCache ==
    \/ \E t \in Tasks :
          \/ CallTag(t) \/ CallTags(t) \/ CallRefresh(t)
          \/ FirstRead(t) \/ AcquireWrite(t) \/ RefreshPoll(t) \/ Reread(t)
          \/ ServeTagsTo(t) \/ FailTagsOf(t) \/ Drop(t)
    \/ \E i \in 1..MaxTags : Rename(i) \/ Remove(i)

SpecCache == InitCache /\ [][NextCache]_vars

(***************************************************************************)
(* A builder that calls include and exclude on one QuerySet over an        *)
(* enumeration of `variants` members and asks it for its query parameter.  *)
(***************************************************************************)
InitQuery ==
    /\ srv = [n |-> 0, ps |-> 1, link |-> <<>>, drift |-> 0]
    /\ pag = new(Url("https", 1))
    /\ last = NoPull
    /\ yielded = <<>>
    /\ errs = 0
    /\ surfaced = {}
    /\ fetchReqs = 0
    /\ lastReq = {}
    /\ fetches = 1
    /\ stream = "none"
    /\ es = Paging
    /\ lava = NewLava
    /\ out = <<>>
    /\ looked = <<>>
    /\ NoCalls
    /\ variants \in 1..MaxEnum
    /\ \E f \in FieldNames : qs = QuerySet_new(f)
    /\ calls = <<>>
    /\ pair = {}
    /\ NoBuilder
    /\ NoLog

Call(op, v) == [op |-> op, v |-> v]

\* a call of include or exclude that leaves the QuerySet q
Called(op, v, q) ==
    /\ Len(calls) < MaxCalls
    /\ qs' = q
    /\ calls' = Append(calls, Call(op, v))
    /\ pair' = {}
    /\ UNCHANGED <<pullVars, lava, cacheVars, builderVars, logVars, variants>>

Include == \E v \in all(variants) : Called("include", v, include(qs, v))

Exclude == \E v \in all(variants) : Called("exclude", v, exclude(qs, variants, v))

Query ==
    /\ \E it \in Orders(qs.values.set) : pair' = {query(qs, variants, it)}
    /\ UNCHANGED <<pullVars, lava, cacheVars, builderVars, logVars, variants, qs, calls>>

NextQuery == Include \/ Exclude \/ Query

SpecQuery == InitQuery /\ [][NextQuery]_vars

(***************************************************************************)
(* A caller that sets up a JobsBuilder and asks it for its stream, or asks *)
(* for the stream of devices.                                              *)
(***************************************************************************)
InitBuilder ==
    /\ srv = [n |-> 0, ps |-> 1, link |-> <<>>, drift |-> 0]
    /\ pag = new(Url("https", 1))
    /\ last = NoPull
    /\ yielded = <<>>
    /\ errs = 0
    /\ surfaced = {}
    /\ fetchReqs = 0
    /\ lastReq = {}
    /\ fetches = 1
    /\ stream = "none"
    /\ es = Paging
    /\ lava = NewLava
    /\ out = <<>>
    /\ looked = <<>>
    /\ NoCalls
    /\ NoQuerySet
    /\ NoBuilder
    /\ NoLog

\* a setter is called with v and leaves the builder b
Set(op, v, b) ==
    /\ url = {}
    /\ Len(calls) < MaxCalls
    /\ jb' = b
    /\ calls' = Append(calls, Call(op, v))
    /\ UNCHANGED <<pullVars, lava, cacheVars, logVars, variants, qs, pair, url>>

SetState == \E v \in StateArgs : Set("state", v, state(jb, v))
SetStateNot == \E v \in StateArgs : Set("state_not", v, state_not(jb, v))
SetLimit == \E n \in LimitArgs : Set("limit", n, limit(jb, n))
SetHealth == \E v \in HealthArgs : Set("health", v, health(jb, v))
SetHealthNot == \E v \in HealthArgs : Set("health_not", v, health_not(jb, v))
SetIdAfter == \E n \in IdArgs : Set("id_after", n, id_after(jb, n))
SetStartedAfter == \E t \in Instants : Set("started_after", t, started_after(jb, t))
SetSubmittedAfter ==
    \E t \in Instants : Set("submitted_after", t, submitted_after(jb, t))
SetEndedAfter == \E t \in Instants : Set("ended_after", t, ended_after(jb, t))
SetOrdering ==
    \E o \in Orderings, asc \in BOOLEAN :
        Set("ordering", <<o, asc>>, ordering(jb, o, asc))

\* the URL u was built for a stream
Built(kind, u) ==
    /\ url = {}
    /\ url' = {[stream |-> kind, u |-> u]}
    /\ UNCHANGED <<pullVars, lava, cacheVars, queryVars, logVars, jb>>

\* JobsBuilder::query is called
BuildJobs ==
    \E si \in IterationOrders(jb.states.values.set),
       hi \in IterationOrders(jb.healths.values.set) :
        Built("jobs", JobsBuilder_query(jb, si, hi))

\* Lava::devices is called, on a Lava whose builder was not used
BuildDevices == calls = <<>> /\ Built("devices", Devices_new)

NextBuilder ==
    \/ SetState \/ SetStateNot \/ SetLimit \/ SetHealth \/ SetHealthNot
    \/ SetIdAfter \/ SetStartedAfter \/ SetSubmittedAfter \/ SetEndedAfter
    \/ SetOrdering \/ BuildJobs \/ BuildDevices

SpecBuilder == InitBuilder /\ [][NextBuilder]_vars

(***************************************************************************)
(* A consumer of the log of one job, pulling the raw stream or the stream  *)
(* of entries, while the answer and the body arrive.                       *)
(***************************************************************************)
InitLog ==
    /\ srv = [n |-> 0, ps |-> 1, link |-> <<>>, drift |-> 0]
    /\ pag = new(Url("https", 1))
    /\ last = NoPull
    /\ yielded = <<>>
    /\ errs = 0
    /\ surfaced = {}
    /\ fetchReqs = 0
    /\ lastReq = {}
    /\ fetches = 1
    /\ stream = "none"
    /\ es = Paging
    /\ lava = NewLava
    /\ out = <<>>
    /\ looked = <<>>
    /\ NoCalls
    /\ NoQuerySet
    /\ NoBuilder
    /\ jl = JobLog_new
    /\ \/ \E a \in Answers : wire = Wire(a, <<>>)
       \/ \E bytes \in ByteStreams :
              \E body \in Bodies(bytes) :
                  wire = Wire([kind |-> "response", status |-> 200], body)
    /\ logged \in {[mode |-> md, got |-> <<>>] : md \in {"raw", "log"}}

\* the next event of the request arrives
Arrive ==
    /\ wire.sent = 1
    /\ wire.arrived < events(wire)
    /\ wire' = [wire EXCEPT !.arrived = @ + 1]
    /\ UNCHANGED <<pullVars, lava, cacheVars, queryVars, builderVars, jl, logged>>

\* the consumer may pull: it stops at a panic
MayPull(md) ==
    /\ logged.mode = md
    /\ Len(logged.got) < MaxPulls
    /\ \A i \in DOMAIN logged.got : logged.got[i].kind # "Panic"

\* a pull that left the JobLog as j and the wire as w returned ret
LogPulled(j, w, ret) ==
    /\ jl' = j
    /\ wire' = w
    /\ logged' = [logged EXCEPT !.got = IF ret.kind = "Pending" THEN @ ELSE Append(@, ret)]
    /\ UNCHANGED <<pullVars, lava, cacheVars, queryVars, builderVars>>

\* the JobLogRaw of JobLogBuilder::raw is pulled, and gives p
PulledRaw(p) == LogPulled([jl EXCEPT !.raw = p.s], p.wire, p.ret)

PullRaw ==
    /\ MayPull("raw")
    /\ \E again \in Again : PulledRaw(JobLogRaw_poll_next(jl.raw, wire, again))

\* the JobLog of JobLogBuilder::log is pulled, and gives p
PulledLog(p) == LogPulled(p.s, p.wire, p.ret)

PullLog ==
    /\ MayPull("log")
    /\ \E again \in Again : PulledLog(JobLog_poll_next(jl, wire, again))

NextLog == Arrive \/ PullRaw \/ PullLog

SpecLog == InitLog /\ [][NextLog]_vars

(***************************************************************************)
(* Properties of the Paginator.                                            *)
(***************************************************************************)
IsPrefix(a, b) == Len(a) <= Len(b) /\ \A i \in 1..Len(a) : a[i] = b[i]

\* every `next` link the server gives is an absolute URL
AllAbs(s) == \A k \in DOMAIN s.link : s.link[k] = "abs"

\* the items of pages 1..k
UpToPage(s, k) == AllItems(Min(k * s.ps, s.n))

\* C1: with no error pulled, the items pulled are always the first items of
\* the collection in the server's order, and when the end of the sequence is
\* pulled they are exactly the N items, each once.
C1_Completeness ==
    errs = 0 =>
        /\ IsPrefix(yielded, AllItems(srv.n))
        /\ last.kind = "End" => yielded = AllItems(srv.n)

C1_Witness ==
    /\ errs = 0
    /\ last.kind = "End"
    /\ srv.n = 3 /\ srv.ps = 2
    /\ yielded = <<1, 2, 3>>

\* the answer in hand makes the page fetch fail as a reqwest error
FetchFailed ==
    /\ pag.next.tag = "Next"
    /\ pag.next.fut.resp.kind \in ReqwestFailures

\* C3: the pull that meets a failed page fetch returns the error, once, and
\* leaves a new, not yet started fetch of the URL whose fetch failed.
C3_RetrySameUrl ==
    [][FetchFailed =>
           /\ last'.kind = "Err" /\ last'.err = "ReqWest"
           /\ errs' = errs + 1
           /\ yielded' = yielded
           /\ pag'.next = StateNext(get(pag.next.fut.uri))
           /\ fetchReqs' = 0]_vars

C3_Witness ==
    /\ last.kind = "Err" /\ last.err = "ReqWest"
    /\ Fresh(pag)
    /\ pag.next.fut.uri.page = 2
    /\ lastReq # {}
    /\ \A q \in lastReq : q.url.page = 2

\* C4: whatever page fetches failed on the way, the items pulled are the
\* first items of the collection in order, a failed fetch leaves the
\* sequence open, and at the end of the sequence all N items were pulled.
C4_RetryLosesNothing ==
    AllAbs(srv) =>
        /\ IsPrefix(yielded, AllItems(srv.n))
        /\ last.kind = "Err" => pag.next.tag = "Next"
        /\ last.kind = "End" => yielded = AllItems(srv.n)

C4_Witness ==
    /\ AllAbs(srv)
    /\ errs = MaxErrors
    /\ last.kind = "End"
    /\ srv.n = 3 /\ srv.ps = 1
    /\ yielded = <<1, 2, 3>>

\* the buffered page is used up and its `next` link is no absolute URL
AtUnparsableLink ==
    /\ pag.next.tag = "Data"
    /\ pag.next.d.results = <<>>
    /\ HasNext(srv, pag.current.page)
    /\ srv.link[pag.current.page] # "abs"

\* C5: a `next` link that does not parse is met only after every item of its
\* page was pulled; the pull that meets it returns the parse error and
\* leaves the Paginator Failed, and from Failed every pull returns the end
\* of the sequence and changes nothing else: no item, no error, no request.
C5_MalformedNextIsTerminal ==
    [][/\ AtUnparsableLink =>
              /\ yielded = UpToPage(srv, pag.current.page)
              /\ yielded' = yielded
              /\ last'.kind = "Err" /\ last'.err = "ParseNextError"
              /\ errs' = errs + 1
              /\ pag'.next.tag = "Failed"
              /\ fetchReqs' = fetchReqs /\ lastReq' = lastReq
       /\ pag.next.tag = "Failed" =>
              /\ last'.kind = "End"
              /\ pag' = pag
              /\ yielded' = yielded /\ errs' = errs /\ surfaced' = surfaced
              /\ fetchReqs' = fetchReqs /\ lastReq' = lastReq]_vars

C5_Witness ==
    /\ pag.next.tag = "Failed"
    /\ last.kind = "End"
    /\ errs = 1
    /\ pag.current.page = 2
    /\ yielded = <<1, 2>>

\* the answer in hand is a redirection that the fetch cannot follow
RedirectFailed ==
    /\ pag.next.tag = "Next"
    /\ pag.next.fut.resp.kind = "redirect"
    /\ \/ pag.next.fut.resp.loc.kind \in {"missing", "nonutf8"}
       \/ fetchReqs = 11

\* C6 as claimed: once a redirect failure was pulled, no request is sent and
\* no item or error is pulled any more.
C6_RedirectFailureIsTerminal ==
    [][surfaced \cap RedirectErrs # {} =>
           /\ fetchReqs' = fetchReqs
           /\ yielded' = yielded
           /\ errs' = errs]_vars

\* C6 amended: a redirect failure is pulled once as an error and, like any
\* other fetch error, leaves a new, not yet started fetch of the same page
\* URL: the sequence is not ended.
C6_RedirectFailureRetried ==
    [][RedirectFailed =>
           /\ last'.kind = "Err" /\ last'.err \in RedirectErrs
           /\ errs' = errs + 1
           /\ yielded' = yielded
           /\ pag'.next = StateNext(get(pag.next.fut.uri))
           /\ fetchReqs' = 0]_vars

C6_Witness ==
    /\ "TooManyRedirects" \in surfaced
    /\ last.kind = "Item"
    /\ fetchReqs = 1

\* C7: while a page whose URL is https is being fetched, the request in
\* flight is an https request, also when it follows a redirect to http.
C7_NoDowngrade ==
    (/\ pag.next.tag = "Next"
     /\ pag.next.fut.phase = "awaiting"
     /\ pag.current.scheme = "https")
        => \A q \in lastReq : q.url.scheme = "https"

C7_Witness ==
    /\ pag.next.tag = "Next"
    /\ pag.next.fut.phase = "awaiting"
    /\ pag.current = Url("https", 2)
    /\ lastReq = {Request(Url("https", 2), AbsStr("http", 2))}

\* the answer in hand is a redirection
RedirectInHand ==
    /\ pag.next.tag = "Next"
    /\ pag.next.fut.resp.kind = "redirect"

\* C8 as claimed: a fetch sends at most 10 requests, and the 10th redirect
\* answer in a row fails it with TooManyRedirects.
C8_NineRedirects ==
    [][/\ fetchReqs' <= 10
       /\ (RedirectInHand /\ fetchReqs = 10) =>
              (last'.kind = "Err" /\ last'.err = "TooManyRedirects")]_vars

\* C8 amended: a fetch sends at most 11 requests; the 11th redirect answer
\* in a row fails it with TooManyRedirects and sends nothing, and each of
\* the first 10, when its Location is usable, is followed by a request.
C8_TenRedirects ==
    [][/\ fetchReqs' <= 11
       /\ (RedirectInHand /\ fetchReqs = 11) =>
              /\ last'.kind = "Err" /\ last'.err = "TooManyRedirects"
              /\ lastReq' = lastReq
       /\ (RedirectInHand /\ fetchReqs <= 10
               /\ pag.next.fut.resp.loc.kind \in {"abs", "rel"}) =>
              /\ last'.kind = "Pending"
              /\ fetchReqs' = fetchReqs + 1]_vars

C8_Witness ==
    /\ last.kind = "Err" /\ last.err = "TooManyRedirects"
    /\ Fresh(pag)

\* the answer in hand is a redirection without a Location header
RedirectWithoutLocation ==
    /\ RedirectInHand
    /\ pag.next.fut.resp.loc.kind = "missing"

\* C9 as claimed: a redirect answer without Location fails the fetch with
\* RedirectMissing and the fetch sends no further request.
C9_MissingLocation ==
    [][RedirectWithoutLocation =>
           /\ last'.kind = "Err" /\ last'.err = "RedirectMissing"
           /\ lastReq' = lastReq
           /\ Fresh(pag')]_vars

\* C9 amended: a redirect answer without Location fails the fetch and the
\* fetch sends no further request; the error is RedirectMissing, unless the
\* answer is the 11th redirect in a row, which is TooManyRedirects.
C9_MissingLocationUnlessTooMany ==
    [][RedirectWithoutLocation =>
           /\ last'.kind = "Err"
           /\ last'.err = IF fetchReqs <= 10 THEN "RedirectMissing"
                          ELSE "TooManyRedirects"
           /\ lastReq' = lastReq
           /\ Fresh(pag')]_vars

C9_Witness ==
    /\ last.kind = "Err" /\ last.err = "RedirectMissing"
    /\ Fresh(pag)
    /\ \E q \in lastReq : q.loc.kind # "missing"

\* the buffered page is used up and carries the `next` link n
AtLink(n) ==
    /\ pag.next.tag = "Data"
    /\ pag.next.d.results = <<>>
    /\ pag.next.d.next = {n}

\* the `next` links a server may give: absolute or relative
Links == {AbsStr(sc, pg) : sc \in Schemes, pg \in 1..(MaxItems + 1)}
             \cup {RelStr(pg) : pg \in 1..(MaxItems + 1)}

\* C10 as claimed: the pull that finds the buffered page used up requests
\* its `next` link, an absolute one as it is and a relative one resolved
\* against the URL of the page.
C10_NextLinkFollowed ==
    [][\A n \in Links : AtLink(n) =>
           /\ last'.kind = "Pending"
           /\ lastReq' = {Request(join(pag.current, n).url, NoLoc)}
           /\ fetchReqs' = 1]_vars

\* C10 amended: an absolute `next` link is requested exactly as given; a
\* relative one is not followed: the pull returns the parse error, the
\* Paginator is Failed and no request is sent.
C10_AbsoluteNextLinkFollowed ==
    [][\A n \in Links : AtLink(n) =>
           IF n.kind = "abs"
           THEN /\ last'.kind = "Pending"
                /\ lastReq' = {Request(Url(n.scheme, n.page), NoLoc)}
                /\ pag'.current = Url(n.scheme, n.page)
                /\ fetchReqs' = 1
           ELSE /\ last'.kind = "Err" /\ last'.err = "ParseNextError"
                /\ pag'.next.tag = "Failed"
                /\ lastReq' = lastReq]_vars

C10_Witness ==
    /\ last.kind = "Pending"
    /\ pag.next.tag = "Next"
    /\ pag.current.page = 2
    /\ fetchReqs = 1
    /\ lastReq = {Request(pag.current, NoLoc)}
    /\ yielded # <<>>

\* the buffered page is used up and carries no `next` link
AtEnd ==
    /\ pag.next.tag = "Data"
    /\ pag.next.d.results = <<>>
    /\ pag.next.d.next = {}

\* C11: a pull that finds the buffered page used up and without `next` link
\* returns the end of the sequence; once the end was returned, every pull
\* returns it again, and from then on nothing changes: no item, no error, no
\* fetch, no request.
C11_EndIsFinal ==
    [][/\ AtEnd => last'.kind = "End"
       /\ (AtEnd \/ last.kind = "End") =>
              /\ last'.kind = "End"
              /\ pag' = pag
              /\ yielded' = yielded /\ errs' = errs
              /\ fetches' = fetches
              /\ fetchReqs' = fetchReqs /\ lastReq' = lastReq]_vars

C11_Witness ==
    /\ last.kind = "End"
    /\ AtEnd
    /\ srv.n = 2 /\ srv.ps = 1
    /\ fetches = 2
    /\ errs = 0

\* the buffered page has items left
Buffered == pag.next.tag = "Data" /\ pag.next.d.results # <<>>

\* C12: a pull that finds items buffered returns the head of the buffer and
\* neither schedules a fetch nor sends a request; a fetch is scheduled only
\* by the pull that finds the buffer used up with a `next` link and by the
\* pull that returns the error of a failed fetch, one fetch each; and when
\* the end is reached with no error pulled, the fetches scheduled since
\* construction, the first one included, are as many as the pages.
C12_FetchesOnlyWhenNeeded ==
    /\ [][/\ Buffered =>
                /\ last'.kind = "Item"
                /\ last'.v = Head(pag.next.d.results)
                /\ pag'.next = StateData([pag.next.d EXCEPT !.results = Tail(@)])
                /\ fetches' = fetches
                /\ fetchReqs' = fetchReqs /\ lastReq' = lastReq
          /\ fetches' # fetches =>
                /\ fetches' = fetches + 1
                /\ \/ /\ pag.next.tag = "Data"
                      /\ pag.next.d.results = <<>>
                      /\ pag.next.d.next # {}
                   \/ /\ pag.next.tag = "Next"
                      /\ last'.kind = "Err"]_vars
    /\ []((errs = 0 /\ last.kind = "End") =>
              fetches = NumPages(srv.n, srv.ps))

C12_Witness ==
    /\ errs = 0
    /\ last.kind = "End"
    /\ srv.n = 3 /\ srv.ps = 1
    /\ fetches = 3
    /\ fetchReqs = 1

(***************************************************************************)
(* Properties of the enrichment streams.                                   *)
(***************************************************************************)
\* C2: the enriched items pulled are, in order, the raw records the
\* Paginator produced, except for the one record being enriched while the
\* stream is Transforming; and while the stream is Transforming the
\* Paginator is not pulled: it does not change and produces no record.
C2_SequentialEnrichment ==
    /\ [](/\ Len(out) <= Len(yielded)
          /\ \A i \in 1..Len(out) : out[i].id = yielded[i]
          /\ Len(yielded) = Len(out) + (IF es.state = "Transforming" THEN 1 ELSE 0)
          /\ es.state = "Transforming" => es.fut.raw = yielded[Len(yielded)])
    /\ [][es.state = "Transforming" =>
              /\ pag' = pag
              /\ yielded' = yielded
              /\ fetchReqs' = fetchReqs /\ lastReq' = lastReq]_vars

C2_Witness ==
    /\ stream = "job"
    /\ es.state = "Transforming"
    /\ last.kind = "Pending"
    /\ Len(out) = 1
    /\ yielded = <<1, 2>>
    /\ es.fut.pos = 3

(***************************************************************************)
(* Properties of the tag cache.                                            *)
(***************************************************************************)
\* what the cache holds under the key k
Cached(k) == {e.tag : e \in {x \in lava.tags : x.key = k}}

\* the keys of the cache
CachedIds(lv) == {e.key : e \in lv.tags}

\* in this step the call of task t leaves the await `pc` and is not dropped
Leaves(t, pc) ==
    /\ tasks[t].pc = pc
    /\ tasks'[t].pc # pc
    /\ tasks'[t].ret.kind # "Dropped"

\* C13: a call of Lava::tag never returns an error.  Its first read returns
\* the record the cache holds under the id, and goes on to a refresh only
\* when there is none; it refreshes at most once, and its second read
\* returns the record the cache then holds under the id, or None when there
\* is none, whether the refresh returned Ok or an error.
C13_TagNeverFails ==
    [][\A t \in Tasks : tasks[t].op = "tag" =>
          /\ tasks'[t].ret.kind \in {"none", "Some", "None", "Dropped"}
          /\ tasks'[t].nref <= 1
          /\ Leaves(t, "read1") =>
                IF Cached(tasks[t].id) # {}
                THEN /\ tasks'[t].pc = "done"
                     /\ tasks'[t].ret = [kind |-> "Some", v |-> Cached(tasks[t].id)]
                ELSE tasks'[t].pc = "write"
          /\ Leaves(t, "read2") =>
                /\ tasks[t].nref = 1
                /\ tasks'[t].pc = "done"
                /\ tasks'[t].ret =
                      IF Cached(tasks[t].id) # {}
                      THEN [kind |-> "Some", v |-> Cached(tasks[t].id)]
                      ELSE [kind |-> "None", v |-> {}]]_vars

\* the lookup of a tag the server lists returned None: its refresh failed
\* before it took anything
C13_Witness ==
    /\ tasks[1].op = "tag" /\ tasks[1].id = 1
    /\ tasks[1].ret.kind = "None"
    /\ tasks[1].nref = 1
    /\ tsrv = AllTags
    /\ lava.tags = {}
    /\ tasks[2].pc = "idle"

\* C14: a lookup that found its id in the cache at its first read starts no
\* refresh and sends no request, and has returned the record; a lookup that
\* did not find it and has returned has started exactly one refresh.
C14_RefreshOnlyOnMiss ==
    \A t \in Tasks : tasks[t].op = "tag" =>
        /\ tasks[t].was =>
              /\ tasks[t].nref = 0 /\ tasks[t].nreq = 0
              /\ tasks[t].pc = "done"
              /\ tasks[t].ret.kind \in {"Some", "Dropped"}
        /\ (~tasks[t].was /\ tasks[t].ret.kind \in {"Some", "None"}) =>
              tasks[t].nref = 1
        /\ tasks[t].nref <= 1
        /\ tasks[t].nreq > 0 => tasks[t].nref = 1

C14_Witness ==
    /\ tasks[1].op = "tag" /\ tasks[1].id = MaxTags + 1
    /\ ~tasks[1].was /\ tasks[1].ret.kind = "None"
    /\ tasks[1].nref = 1 /\ tasks[1].nreq = MaxTags
    /\ tasks[2].op = "tag" /\ tasks[2].id = 1
    /\ tasks[2].was /\ tasks[2].ret.kind = "Some"
    /\ tasks[2].nref = 0 /\ tasks[2].nreq = 0

\* C15: no step takes an id out of the cache, whatever the tasks and the
\* server do.
C15_CacheNeverShrinks ==
    [][CachedIds(lava) \subseteq CachedIds(lava')]_vars

\* a refresh that the server answered after it removed tag 2 has returned Ok
\* and tag 2 is still cached
C15_Witness ==
    /\ tsrv[2] = 0
    /\ 2 \in CachedIds(lava)
    /\ tasks[1].op = "refresh"
    /\ tasks[1].ret.kind = "Ok"
    /\ tasks[1].nreq = MaxTags - 1

\* the tag records
TagRecords == [id : 1..MaxTags, name : Names]

\* C16: at every moment, whatever the interleaving, the cache holds at most
\* one entry per key, every entry is a whole tag record stored under its own
\* id and sent by the server, and the entry of an id is the record that a
\* refresh took last from the server for that id.
C16_CacheNeverCorrupted ==
    /\ \A e \in lava.tags :
          /\ e.tag \in TagRecords
          /\ e.key = e.tag.id
          /\ e.tag \in delivered
          /\ written[e.key] = {e.tag}
    /\ \A e, g \in lava.tags : e.key = g.key => e = g
    /\ \A k \in DOMAIN written : written[k] = Cached(k)

\* a refresh has overwritten the first name of tag 1 by its second name
\* while another call waits for the lock
C16_Witness ==
    /\ Tag(1, 1) \in delivered
    /\ Cached(1) = {Tag(1, 2)}
    /\ tasks[2].pc = "page"
    /\ tasks[1].pc = "done"
    /\ tasks[1].nref = 1

\* the tasks whose refresh holds the tag Paginator
Refreshing == {t \in Tasks : tasks[t].pc = "page"}

\* C17: at most one call is paginating the tag collection at any moment,
\* and the write half of the lock is held exactly while one is.
C17_RefreshesExclusive ==
    /\ Cardinality(Refreshing) <= 1
    /\ lava.writer <=> Refreshing # {}

\* one call waits for a page of tags while another waits for the write guard
C17_Witness ==
    /\ tasks[1].op = "tags" /\ AwaitingTagsOf(1)
    /\ tasks[2].op = "refresh" /\ tasks[2].pc = "write"

\* C18 as claimed: a lookup of a cached id that is about to read the cache
\* can do so while another task's refresh is paginating.
C18_ReadsNotBlocked ==
    \A t \in Tasks :
        (/\ tasks[t].op = "tag" /\ tasks[t].pc = "read1"
         /\ Cached(tasks[t].id) # {}
         /\ Refreshing \ {t} # {})
            => ENABLED FirstRead(t)

\* in this step the refresh of task t ends with an error or is dropped
RefreshAbandoned(t) ==
    /\ tasks[t].pc = "page"
    /\ \/ tasks'[t].ret.kind \in {"Err", "Dropped"}
       \/ tasks'[t].pc = "read2" /\ ~tasks'[t].rok

\* C19 as claimed: a refresh that fails or is dropped leaves the cache as it
\* found it.
C19_NoPartialMutation ==
    [][\A t \in Tasks : RefreshAbandoned(t) => lava'.tags = tasks[t].snap]_vars

\* C20 as claimed: what Lava::tags returns is the set of the tags the
\* server sent to its refresh, one record per id.
C20_TagsAreServerTags ==
    [][\A t \in Tasks :
          (tasks[t].op = "tags" /\ Leaves(t, "read2")) =>
              /\ tasks'[t].ret.v = tasks[t].served
              /\ \A a, b \in tasks'[t].ret.v : a.id = b.id => a = b]_vars

(***************************************************************************)
(* Properties of the Devices and Jobs streams.                             *)
(***************************************************************************)
\* the ids among ids[lo..hi] whose key the cache held when it was looked up,
\* in the order of ids
Resolving(ids, keys, lo, hi) ==
    SelectSeq(SubSeq(ids, lo, hi), LAMBDA id : \E j \in lo..hi : ids[j] = id /\ id \in keys[j])

\* the enriched item i is what the lookups of its raw record resolved
ResolvedOnly(i) ==
    /\ Len(looked[i]) = Len(LookupIds(stream, out[i].id))
    /\ out[i].tags =
           Resolving(LookupIds(stream, out[i].id), looked[i],
                     1, Len(RawTags(out[i].id)))
    /\ out[i].failure_tags =
           Resolving(LookupIds(stream, out[i].id), looked[i],
                     Len(RawTags(out[i].id)) + 1,
                     Len(LookupIds(stream, out[i].id)))

\* C21: the tags of an enriched device or job, and the failure tags of a
\* job, are the ids of the raw record that the cache held when they were
\* looked up, in the order of the raw record; the others are left out, and
\* a pull that returns an error took no raw record from the Paginator.
C21_TagsAreResolvedIds ==
    /\ [](\A i \in 1..Len(out) : ResolvedOnly(i))
    /\ [][errs' = errs + 1 => yielded' = yielded /\ es.state = "Paging"]_vars

C21_Witness ==
    /\ stream = "job"
    /\ Len(out) = 2
    /\ out[2].tags = <<>>
    /\ out[2].failure_tags = <<1>>
    /\ 2 \in CachedIds(lava)

\* C22: the enriched items pulled are one per raw record the Paginator
\* produced, in its order, but for the record being enriched; the stream
\* reports the end only in the pull in which its Paginator does, and then
\* every item of the collection was pulled once as an enriched item.
C22_OnePerRecord ==
    /\ [](/\ [i \in 1..Len(out) |-> out[i].id] = SubSeq(yielded, 1, Len(out))
          /\ Len(yielded) - Len(out) = (IF es.state = "Transforming" THEN 1 ELSE 0)
          /\ last.kind = "End" =>
                 /\ AtEnd
                 /\ [i \in 1..Len(out) |-> out[i].id] = AllItems(srv.n))
    /\ [][last'.kind = "End" <=>
              (es.state = "Paging" /\ Paginator_poll_next(pag).kind = "End")]_vars

C22_Witness ==
    /\ last.kind = "End"
    /\ srv.n = MaxItems
    /\ Len(out) = MaxItems
    /\ out[1].tags = <<>> /\ out[1].failure_tags = <<>>
    /\ out[2].tags # <<>>

\* C23: when the page fetch of the stream's Paginator has failed, the pull
\* returns that error, starts no enrichment and leaves the stream Paging
\* over a Paginator that will fetch the same page again: the cache, the
\* enriched items and the raw records pulled are as before.
C23_ErrorForwarded ==
    [][(es.state = "Paging" /\ FetchFailed) =>
           /\ last'.kind = "Err" /\ last'.err = "ReqWest"
           /\ errs' = errs + 1
           /\ es' = Paging
           /\ pag'.next = StateNext(get(pag.next.fut.uri))
           /\ lava' = lava /\ out' = out /\ yielded' = yielded]_vars

C23_Witness ==
    /\ stream = "device"
    /\ last.kind = "Err" /\ last.err = "ReqWest"
    /\ es = Paging
    /\ Fresh(pag)
    /\ pag.next.fut.uri.page = 2
    /\ Len(out) = MaxPageSize

(***************************************************************************)
(* Properties of the QuerySet.                                             *)
(***************************************************************************)
\* the set of members the QuerySet allows, when it holds one
Allowed == qs.values.set

\* query() was called after the last include or exclude
Asked == pair # {}

\* C24 as claimed: whenever the set held is the whole enumeration, query()
\* returns None, as it does when no set is held.
C24_FullSetIsNone ==
    (Asked /\ qs.values.some /\ Allowed = all(variants)) => pair = {NoPair}

\* C25 as claimed: for every member E, exclude(E) then include(E) on a new
\* QuerySet makes query() return None, and include(E) then exclude(E) makes it
\* return the key field__in with the empty string.
C25_ExcludeIncludeAsymmetry ==
    \A E \in all(variants) :
        /\ (Asked /\ calls = <<Call("exclude", E), Call("include", E)>>)
               => pair = {NoPair}
        /\ (Asked /\ calls = <<Call("include", E), Call("exclude", E)>>)
               => pair = {SomePair(<<qs.field_name, "__in">>, <<>>)}

\* C26: include(v) on a QuerySet that holds no set leaves it holding {v};
\* on one that holds a set it adds v to the set and removes nothing.
C26_IncludeAdds ==
    [][\A v \in all(variants) :
          calls' = Append(calls, Call("include", v)) =>
              /\ qs'.values.some
              /\ qs'.field_name = qs.field_name
              /\ qs'.values.set = (IF qs.values.some THEN Allowed \cup {v} ELSE {v})]_vars

C26_Witness ==
    /\ variants = 3
    /\ calls = <<Call("exclude", 2), Call("exclude", 3), Call("include", 3)>>
    /\ Allowed = {1, 3}

\* C27: exclude(v) on a QuerySet that holds no set leaves it holding every
\* member of the enumeration but v; on one that holds a set it removes v
\* from the set, if there, and nothing else.
C27_ExcludeRemoves ==
    [][\A v \in all(variants) :
          calls' = Append(calls, Call("exclude", v)) =>
              /\ qs'.values.some
              /\ qs'.field_name = qs.field_name
              /\ qs'.values.set = (IF qs.values.some THEN Allowed \ {v}
                                   ELSE all(variants) \ {v})]_vars

C27_Witness ==
    /\ variants = 3
    /\ calls = <<Call("exclude", 2), Call("include", 2), Call("exclude", 1)>>
    /\ Allowed = {2, 3}

\* C28: whenever the set held has one member x, query() returns the field
\* name as it is and the name of x.
C28_SingletonPlainKey ==
    (Asked /\ qs.values.some) =>
        \A x \in Allowed :
            Allowed = {x} => pair = {SomePair(<<qs.field_name>>, <<VariantNames[x]>>)}

C28_Witness ==
    /\ variants = 3
    /\ calls = <<Call("exclude", 1), Call("exclude", 3)>>
    /\ pair = {SomePair(<<"health">>, <<"State2">>)}

\* the string v is the names of the members of s, each once, with a comma
\* between one and the next
ListsExactly(v, s) ==
    /\ Len(v) = (IF s = {} THEN 0 ELSE 2 * Cardinality(s) - 1)
    /\ \A i \in DOMAIN v : i % 2 = 0 => v[i] = ","
    /\ \A x \in s : \E i \in DOMAIN v : i % 2 = 1 /\ v[i] = VariantNames[x]

\* C29: whenever the set held has not one member and is not the whole
\* enumeration, query() returns the key field__in and the names of the
\* members of the set, each once, joined by commas; for the empty set the
\* value is the empty string, which is not None.
C29_ListUnderInKey ==
    (Asked /\ qs.values.some /\ Cardinality(Allowed) # 1 /\ Allowed # all(variants)) =>
        \A p \in pair :
            /\ p.some
            /\ p.key = <<qs.field_name, "__in">>
            /\ ListsExactly(p.value, Allowed)
            /\ Allowed = {} => p.value = <<>> /\ p # NoPair

C29_Witness ==
    /\ variants = 3
    /\ calls = <<Call("include", 3), Call("include", 1)>>
    /\ pair = {SomePair(<<"state", "__in">>, <<"State3", ",", "State1">>)}

\* C30: a QuerySet on which neither include nor exclude was called holds no
\* set, and query() returns None.
C30_FreshIsNone ==
    /\ calls = <<>> <=> ~qs.values.some
    /\ (Asked /\ calls = <<>>) => pair = {NoPair}

C30_Witness ==
    /\ calls = <<>>
    /\ variants = 3
    /\ pair = {NoPair}

(***************************************************************************)
(* Further properties of the Paginator.                                    *)
(***************************************************************************)
\* the pull to come receives a page: the answer in hand is a page
PageReceived ==
    /\ pag.next.tag = "Next"
    /\ pag.next.fut.resp.kind = "ok"

\* C33: reported_items() is None at first; the pull that receives a page
\* leaves it at the count of that page and no other step changes it, so it
\* is the count of the page received last and is never None again, whatever
\* errors are pulled and after the sequence failed or ended.
C33_ReportedItems ==
    /\ pag.count = {}
    /\ [][IF PageReceived THEN pag'.count = {pag.next.fut.resp.body.count}
                          ELSE pag'.count = pag.count]_vars

C33_Witness ==
    /\ srv.drift = 1
    /\ srv.n = MaxItems
    /\ pag.count = {srv.n + 1}
    /\ pag.next.tag = "Failed"
    /\ errs = MaxErrors

\* this step is a pull: an answer of the server leaves it in the hands of
\* the fetch, a pull never does
PullStep == ~(pag'.next.tag = "Next" /\ pag'.next.fut.resp.kind # "none")

\* C35 as claimed: with no error pulled, a pull that returns Pending has
\* polled a page request that is still in flight, whose answer will wake the
\* consumer.
C35_PendingAwaitsRequest ==
    [][(PullStep /\ errs' = 0 /\ last'.kind = "Pending") => Awaiting(pag')]_vars

(***************************************************************************)
(* Further properties of the tag cache.                                    *)
(***************************************************************************)
\* the call of task t is between its first and its last step
InProgress(t) == tasks[t].pc \notin {"idle", "done"}

\* the call of task t has a step to take that does not depend on a poll
\* nobody asked for: a guard that is free, or a fetch that is scheduled, in
\* flight or answered
CanStep(t) ==
    \/ tasks[t].pc \in {"read1", "read2"} /\ read_free(lava)
    \/ tasks[t].pc = "write" /\ write_free(lava)
    \/ tasks[t].pc = "page" /\ tasks[t].tp.next.tag = "Next"

\* C36 as claimed: while a lookup is in progress some call in progress can
\* take a step, so that no lookup waits for ever.
C36_NoDeadlock ==
    (\E t \in Tasks : tasks[t].op = "tag" /\ InProgress(t)) =>
        (\E t \in Tasks : InProgress(t) /\ CanStep(t))

\* the answer in hand makes the tag fetch of task t fail
TagFetchFailed(t) ==
    /\ tasks[t].pc = "page"
    /\ tasks[t].tp.next.tag = "Next"
    /\ tasks[t].tp.next.fut.resp.kind \in ReqwestFailures

\* the page of tags that the refresh of task t looks at in its next poll
PageInHand(t) ==
    IF tasks[t].tp.next.tag = "Next" THEN tasks[t].tp.next.fut.resp.body
    ELSE tasks[t].tp.next.d

\* C37: the poll of a refresh_tags or tags call that meets a failed tag
\* fetch returns Err at once, with the write guard released and no request
\* sent, whatever the cache holds; and the refresh of such a call succeeds
\* only in a poll that looks at a page of tags with no next link.
C37_RefreshDoesNotRetry ==
    [][\A t \in Tasks :
          (tasks[t].op \in {"refresh", "tags"} /\ tasks[t].pc = "page"
           /\ tasks'[t] # tasks[t] /\ tasks'[t].ret.kind # "Dropped") =>
              /\ TagFetchFailed(t) =>
                     /\ tasks'[t].pc = "done"
                     /\ tasks'[t].ret = [kind |-> "Err", v |-> {}]
                     /\ tasks'[t].nreq = tasks[t].nreq
                     /\ ~lava'.writer
              /\ (tasks'[t].ret.kind = "Ok" \/ tasks'[t].pc = "read2") =>
                     /\ tasks[t].tp.next.tag = "Next" =>
                            tasks[t].tp.next.fut.resp.kind = "ok"
                     /\ PageInHand(t).next = {}]_vars

C37_Witness ==
    \E t \in Tasks :
        /\ tasks[t].op = "tags"
        /\ tasks[t].ret.kind = "Err"
        /\ tasks[t].nreq = 2
        /\ Cardinality(lava.tags) = MaxTags
        /\ ~lava.writer

(***************************************************************************)
(* Further properties of the QuerySet.                                     *)
(***************************************************************************)
\* C38: on a QuerySet that holds a set, include and exclude are the
\* insertion and the removal of a member: a call repeated changes nothing
\* more, two calls on different members give the same QuerySet in either
\* order, and the QuerySet holds a set ever after.
C38_SetAlgebra ==
    qs.values.some =>
        /\ \A v \in all(variants) :
              /\ include(include(qs, v), v) = include(qs, v)
              /\ exclude(exclude(qs, variants, v), variants, v) = exclude(qs, variants, v)
              /\ include(qs, v).values = SomeValues(Allowed \cup {v})
              /\ exclude(qs, variants, v).values = SomeValues(Allowed \ {v})
        /\ \A v, w \in all(variants) :
              v # w =>
                  /\ include(include(qs, v), w) = include(include(qs, w), v)
                  /\ exclude(exclude(qs, variants, v), variants, w)
                         = exclude(exclude(qs, variants, w), variants, v)
                  /\ exclude(include(qs, v), variants, w)
                         = include(exclude(qs, variants, w), v)

C38_Witness ==
    /\ variants = 3
    /\ calls = <<Call("include", 1), Call("exclude", 1), Call("exclude", 1)>>
    /\ qs.values = SomeValues({})

(***************************************************************************)
(* C31.  The URL built by JobsBuilder::query has exactly one `ordering`    *)
(* parameter: the field name of the last ordering() call (`id` when there  *)
(* was none), prefixed with `-` when that call asked for descending order; *)
(* the URL of the Devices stream has exactly one, `ordering=hostname`.     *)
(***************************************************************************)
\* the calls of the setter op, in the order they were made
CallsOf(op) == SelectSeq(calls, LAMBDA c : c.op = op)

\* the arguments of the last call of the setter op, if it was called
LastOf(op) == {CallsOf(op)[Len(CallsOf(op))].v : i \in {1} \cap DOMAIN CallsOf(op)}

\* the values of the parameters called name among the pairs, one for each
Named(pairs, name) ==
    [i \in {j \in DOMAIN pairs : pairs[j].name = name} |-> pairs[i].value]

\* the field name that the API knows an ordering by
FieldName(o) ==
    CASE o = "Id" -> "id"
      [] o = "StartTime" -> "start_time"
      [] o = "EndTime" -> "end_time"
      [] o = "SubmitTime" -> "submit_time"

\* the value of `ordering` that the last call c asks for
Chosen(c) == IF c[2] THEN <<FieldName(c[1])>> ELSE <<"-", FieldName(c[1])>>

\* the value of `ordering` that the calls made ask for
ChosenOrdering ==
    IF LastOf("ordering") = {} THEN <<"id">>
    ELSE Chosen(CHOOSE c \in LastOf("ordering") : TRUE)

\* the only value among vals is val
Only(vals, val) == Cardinality(DOMAIN vals) = 1 /\ \A i \in DOMAIN vals : vals[i] = val

C31_OneOrdering ==
    \A r \in url :
        Only(Named(query_pairs(r.u), <<"ordering">>),
             IF r.stream = "devices" THEN <<"hostname">> ELSE ChosenOrdering)

C31_Witness ==
    /\ Len(CallsOf("ordering")) = 2
    /\ LastOf("ordering") = {<<"StartTime", FALSE>>}
    /\ CallsOf("ordering")[1].v = <<"EndTime", TRUE>>
    /\ Len(CallsOf("state_not")) = 1
    /\ \E r \in url : r.stream = "jobs" /\ Len(query_pairs(r.u)) = 2

(***************************************************************************)
(* C32.  In the URL built by JobsBuilder::query, each of `limit`,          *)
(* `id__gt`, `start_time__gt`, `submit_time__gt` and `end_time__gt` is     *)
(* there exactly when its setter was called, once, with the value of the   *)
(* last call; the `state` and the `health` parameters are what the         *)
(* QuerySet made by the calls on that filter alone renders.                *)
(***************************************************************************)
\* the parameter is there once with the value of the last call of its
\* setter (strs is that value as a string), or not there without a call
LastWins(vals, strs) ==
    /\ Cardinality(DOMAIN vals) = Cardinality(strs)
    /\ \A i \in DOMAIN vals : vals[i] \in strs

RECURSIVE replay(_, _, _, _, _)
\* the QuerySet that the calls cs of include (inc) and of exclude (exc)
\* make of q, the calls of other setters left out
replay(q, cs, inc, exc, n) ==
    IF cs = <<>> THEN q
    ELSE replay(CASE Head(cs).op = inc -> include(q, Head(cs).v)
                  [] Head(cs).op = exc -> exclude(q, n, Head(cs).v)
                  [] OTHER -> q,
                Tail(cs), inc, exc, n)

\* the parameters on <<field>> and on <<field, "__in">> are the pair p
Renders(pairs, field, p) ==
    /\ \A key \in {<<field>>, <<field, "__in">>} :
           Named(pairs, key) # <<>> => p.some /\ p.key = key
    /\ p.some => Only(Named(pairs, p.key), p.value)

\* the parameters that filter on field are what q renders, in some order
RendersAs(pairs, field, q, names) ==
    \E it \in IterationOrders(q.values.set) :
        Renders(pairs, field, query_as(q, names, it))

\* the parameters of the URL of a stream of jobs follow the calls made
FollowCalls(pairs) ==
    /\ LastWins(Named(pairs, <<"limit">>), {Decimal(n) : n \in LastOf("limit")})
    /\ LastWins(Named(pairs, <<"id", "__gt">>), {Decimal(n) : n \in LastOf("id_after")})
    /\ LastWins(Named(pairs, <<"start_time", "__gt">>),
                {to_rfc3339(t) : t \in LastOf("started_after")})
    /\ LastWins(Named(pairs, <<"submit_time", "__gt">>),
                {to_rfc3339(t) : t \in LastOf("submitted_after")})
    /\ LastWins(Named(pairs, <<"end_time", "__gt">>),
                {to_rfc3339(t) : t \in LastOf("ended_after")})
    /\ RendersAs(pairs, "state",
                 replay(QuerySet_new("state"), calls, "state", "state_not",
                        Len(StateNames)),
                 StateNames)
    /\ RendersAs(pairs, "health",
                 replay(QuerySet_new("health"), calls, "health", "health_not",
                        Len(HealthNames)),
                 HealthNames)

C32_OptionalParameters ==
    \A r \in url : r.stream = "jobs" => FollowCalls(query_pairs(r.u))

C32_Witness ==
    /\ Len(calls) = 3
    /\ CallsOf("id_after") = <<Call("id_after", 9), Call("id_after", -1)>>
    /\ CallsOf("health_not") = <<Call("health_not", 3)>>
    /\ calls[2].op = "health_not"
    /\ \E r \in url :
           /\ r.stream = "jobs"
           /\ Named(query_pairs(r.u), <<"id", "__gt">>) = (3 :> <<"-", "1">>)
           /\ Named(query_pairs(r.u), <<"limit">>) = <<>>
           /\ DOMAIN Named(query_pairs(r.u), <<"health", "__in">>) = {2}
           /\ r.u.query[9] = "%2C"

(***************************************************************************)
(* C34.  When the log request is answered with an error status, the first  *)
(* item of the stream is the NoData error for 404 and a request error for  *)
(* any other status, every item after it is the end of the stream, and     *)
(* once the error was yielded the next pull returns the end.               *)
(***************************************************************************)
\* what the next pull of the consumer would return
NextPull(again) ==
    IF logged.mode = "raw" THEN JobLogRaw_poll_next(jl.raw, wire, again).ret
    ELSE JobLog_poll_next(jl, wire, again).ret

\* the request was answered with an error status
ErrorStatus == wire.answer.kind = "response" /\ wire.answer.status >= 400

C34_ErrorStatus ==
    ErrorStatus =>
        /\ \A i \in DOMAIN logged.got :
               logged.got[i] = IF i > 1 THEN ReadyNone
                               ELSE IF wire.answer.status = 404
                               THEN ReadyErr("NoData", <<>>)
                               ELSE ReadyErr("RequestError", <<>>)
        /\ logged.got # <<>> => \A again \in Again : NextPull(again) = ReadyNone

C34_Witness ==
    /\ wire.answer = [kind |-> "response", status |-> 404]
    /\ logged = [mode |-> "log", got |-> <<ReadyErr("NoData", <<>>), ReadyNone, ReadyNone>>]

(***************************************************************************)
(* C39.  At most one request is sent, no future is polled after it gave    *)
(* its output, and once the request was answered with an error status or   *)
(* failed and the error was yielded, the state is Done and every later     *)
(* pull returns the end of the stream.                                     *)
(***************************************************************************)
\* the request failed or was answered with an error status, and a pull
\* has returned the error
RequestErrorYielded == events(wire) = 1 /\ logged.got # <<>>

C39_RequestErrorTerminal ==
    /\ wire.sent <= 1
    /\ ~wire.repolled
    /\ RequestErrorYielded =>
           /\ jl.raw.state = "Done"
           /\ \A i \in DOMAIN logged.got : i > 1 => logged.got[i] = ReadyNone
           /\ \A again \in Again : NextPull(again) = ReadyNone

(***************************************************************************)
(* C40.  Whatever chunks the bytes of the body arrive in, the entries that *)
(* JobLog yields are, in order, those of the newline-terminated lines of   *)
(* the bytes, each parsed from its line less the first byte: the ones      *)
(* yielded so far are the first of them, and they are all yielded before   *)
(* the stream ends or gives an error of the transport.  No pull panics,    *)
(* and the buffer holds a chunk whenever from_buf is set.                  *)
(***************************************************************************)
RECURSIVE Lines(_)
\* the line that ends at place p of the bytes, then the lines after it
LinesFrom(bytes, p) ==
    IF p = 0 THEN <<>>
    ELSE <<SubSeq(bytes, 1, p)>> \o Lines(SubSeq(bytes, p + 1, Len(bytes)))

\* the newline-terminated lines of the bytes
Lines(bytes) == LinesFrom(bytes, position(bytes, "\n"))

\* the bytes of a body
BodyBytes(body) == concat([i \in DOMAIN body |-> body[i].bytes])

\* the entry of a line: parsed without the first byte of the line, and
\* well-formed only as the text "e" and the newline
Entry(line) ==
    IF Tail(line) = <<"e", "\n">> THEN ReadyOk(Tail(line))
    ELSE ReadyErr("ParseError", Tail(line))

\* what the pulls returned so far is the first n of the entries, and then
\* what ends is
YieldedOf(entries, n, ends) ==
    /\ n <= Len(entries)
    /\ \A i \in 1..n : logged.got[i] = entries[i]
    /\ n < Len(logged.got) =>
           /\ n = Len(entries)
           /\ \A i \in (n + 1)..Len(logged.got) : logged.got[i] \in ends

\* the pulls that returned an entry come first
EntriesPulled ==
    Cardinality({i \in DOMAIN logged.got :
                    logged.got[i].kind = "Ok" \/ logged.got[i].e = "ParseError"})

C40_ChunkIndependent ==
    (logged.mode = "log" /\ wire.answer = [kind |-> "response", status |-> 200]) =>
        /\ jl.from_buf => jl.buf # <<>>
        /\ YieldedOf([i \in DOMAIN Lines(BodyBytes(wire.body))
                         |-> Entry(Lines(BodyBytes(wire.body))[i])],
                     EntriesPulled, {ReadyNone, ReadyErr("RequestError", <<>>)})

C40_Witness ==
    /\ logged = [mode |-> "log", got |-> <<ReadyOk(<<"e", "\n">>), ReadyNone>>]
    /\ wire.body = <<BodyChunk(<<"x">>), BodyChunk(<<>>), BodyChunk(<<"e", "\n", "x">>)>>

====
